---- MODULE Spec2Model ----
(***************************************************************************)
(* FengDock: the watch refresh pipeline (app/loblaws.py), the mind-map     *)
(* optimistic-concurrency update (app/routers/mindmaps.py, app/crud.py)    *)
(* and the link click counter (app/routers/links.py, app/crud.py).         *)
(*                                                                         *)
(* Conventions.  A Python value that may be None is a sequence of length   *)
(* at most one: None is << >> and a present value v is <<v>>.  A JSON      *)
(* object is a record that carries every key the code reads, a key the     *)
(* upstream omitted (or sent as null) being None.  Prices are integers in  *)
(* thousandths of a dollar, so that the two-decimal formatting of the      *)
(* signature is a real conversion.  Datetimes are their ISO-8601 strings;  *)
(* the batch time `now` is a tick of a logical clock.                      *)
(***************************************************************************)
EXTENDS Integers, Sequences, FiniteSets, TLC

VARIABLES
    watches,      \* table loblaws_watches: id -> None | <<row>> (committed state)
    lastApplied,  \* history: id -> None | <<payload>> last committed from a good snapshot
    runs,         \* one record per refresh_watch_ids activation
    clock,        \* logical time; datetime.now() of the next _apply_snapshots
    fetches,      \* calls of fetch_product_payload the started runs account for
    docs,         \* table mindmap_docs: id -> row (committed state)
    mreqs,        \* one record per update_doc request in progress
    links,        \* table links: id -> row (committed state)
    clicks,       \* one record per register_click request in progress
    env,          \* the process environment: the variables os.getenv reads
    call,         \* the last call of a function checked on its own: input and outcome
    sched,        \* the scheduler: its jobs, and the task the lifespan launches
    health        \* the run of run_link_health_check in progress

vars == <<watches, lastApplied, runs, clock, fetches, docs, mreqs, links, clicks,
          env, call, sched, health>>

watchVars == <<watches, lastApplied, runs, clock, fetches>>
mindVars == <<docs, mreqs>>
linkVars == <<links, clicks>>
sysVars == <<env, call, sched, health>>

(***************************************************************************)
(* Bounds of the model.                                                    *)
(***************************************************************************)
NumWatches == 2     \* rows of loblaws_watches
MaxFetches == 3     \* upstream fetches over all batches, one run at a time
MaxOverlapFetches == 2   \* upstream fetches over all batches, runs overlapping
MaxVersion == 4     \* mind-map versions explored
NumClickers == 2    \* register_click requests in flight together
NumListed == 3      \* rows of the links table a listing sorts
MaxClicks == 3      \* clicks one caller has recorded when it stops
MaxChecks == 2      \* runs of the link health check
MaxShapeFetches == 4  \* upstream fetches against an upstream whose schema moved
MaxOffers == 3      \* offers of a product page
MaxCreateFetches == 2  \* upstream fetches the create_watch requests cause
MaxDeleteFetches == 2  \* upstream fetches while a caller deletes watches
MaxUrlLen == 5      \* characters of a product URL
MaxEditFetches == 2 \* upstream fetches while watches are edited
MaxApiFetches == 2  \* upstream fetches the endpoints' caller causes
MaxMissed == 3      \* run times of a job that are due and not yet processed

WatchIds == 1 .. NumWatches
RunIds == {1, 2}

(***************************************************************************)
(* Constants of the source.                                                *)
(***************************************************************************)
PoliteDelayMs == 200    \* asyncio.sleep(0.2) after a fetch that returned
FailureDelayMs == 500   \* asyncio.sleep(0.5) after a fetch that raised
HashLen == 64           \* the length of a SHA-256 hex digest, auth.py
MaxInstances == 1       \* max_instances of both jobs, scheduler.py

(***************************************************************************)
(* Optional values and the `or` idiom.                                     *)
(***************************************************************************)
None == << >>
Some(v) == <<v>>

\* bool(x) of an optional string: None and "" are falsy
TruthyStr(x) == x # None /\ x[1] # ""

\* `a or b` on optional strings
StrOr(a, b) == IF TruthyStr(a) THEN a ELSE b

\* `(d or {}).get(key)` on an optional JSON object
Get(d, key) == IF d = None THEN None ELSE d[1][key]

(***************************************************************************)
(* The upstream payloads the fetch may return.                             *)
(***************************************************************************)
Price(value, unit, type, expiry) ==
    Some([value |-> value, unit |-> unit, type |-> type, expiryDate |-> expiry])

DealBadge(type, text, expiry, name) ==
    Some([dealBadge |->
            Some([type |-> type, text |-> text, expiryDate |-> expiry, name |-> name])])

NoBadge == Some([dealBadge |-> None])

Offer(price, wasPrice, badges, stock) ==
    [price |-> price, wasPrice |-> wasPrice, badges |-> badges, stockStatus |-> stock]

\* a regular-priced offer: no deal badge
OfferPlain ==
    Offer(Price(Some(6750), Some("ea"), None, None), None, NoBadge, Some("IN_STOCK"))

\* the same offer a fraction of a cent dearer
OfferPlainSubCent ==
    Offer(Price(Some(6752), Some("ea"), None, None), None, NoBadge, Some("IN_STOCK"))

\* SAMPLE_PAYLOAD_V1's offer
OfferSale ==
    Offer(Price(Some(6750), Some("ea"), Some("SPECIAL"), Some("2025-12-03T00:00")),
          Some([value |-> Some(7140)]),
          DealBadge(Some("SALE"), Some("SAVE $0.39"), Some("2025-12-03T00:00:00Z"), Some("SALE")),
          Some("IN_STOCK"))

\* SAMPLE_PAYLOAD_V2's offer
OfferSale2 ==
    Offer(Price(Some(6250), Some("ea"), Some("SPECIAL"), Some("2025-12-03T00:00")),
          Some([value |-> Some(7140)]),
          DealBadge(Some("SALE"), Some("SAVE $0.89"), Some("2025-12-10T00:00:00Z"), Some("SALE")),
          Some("IN_STOCK"))

Product(offers) ==
    [name |-> Some("Lactose Free 2% Dairy Product"),
     brand |-> Some("Natrel"),
     imageAssets |-> << [largeUrl |-> None,
                         extraLargeUrl |-> Some("https://example.com/xl.png"),
                         mediumUrl |-> Some("https://example.com/m.png")] >>,
     offers |-> offers]

\* a product page without offers, name, brand or images
PayloadNoOffers ==
    [name |-> None, brand |-> None, imageAssets |-> << >>, offers |-> << >>]

Payloads ==
    { PayloadNoOffers,
      Product(<<OfferPlain>>),
      Product(<<OfferPlainSubCent>>),
      Product(<<OfferPlain, OfferSale>>),
      Product(<<OfferSale2>>) }

(***************************************************************************)
(* app/loblaws.py: pure helpers.                                           *)
(***************************************************************************)
\* ProductSnapshot
ProductSnapshot(watch_id, payload, error) ==
    [watch_id |-> watch_id, payload |-> payload, error |-> error]

\* ProductSnapshot.ok
SnapshotOk(snapshot) == snapshot.error = None /\ snapshot.payload # None

\* _parse_expiry: the UTC instant of an upstream expiry string.  A string
\* without offset is Toronto local time (UTC-5 in December).
_parse_expiry(value) ==
    IF ~TruthyStr(value) THEN None
    ELSE CASE value[1] = "2025-12-03T00:00:00Z" -> Some("2025-12-03T00:00:00+00:00")
           [] value[1] = "2025-12-10T00:00:00Z" -> Some("2025-12-10T00:00:00+00:00")
           [] value[1] = "2025-12-03T00:00" -> Some("2025-12-03T05:00:00+00:00")
           [] OTHER -> None

\* a JSON string where the pipeline expects an object
JsonString(text) == [string |-> text]
IsJsonString(value) == DOMAIN value = {"string"}

\* a product page whose offers are not objects
PayloadOffersNotObjects ==
    [name |-> Some("Lactose Free 2% Dairy Product"), brand |-> Some("Natrel"),
     imageAssets |-> << >>, offers |-> <<JsonString("unavailable")>>]

\* the loop of _select_primary_offer comes to an offer that is not an object:
\* offer.get raises AttributeError
RECURSIVE OfferLoopRaises(_)
OfferLoopRaises(offers) ==
    IF offers = << >> THEN FALSE
    ELSE IF IsJsonString(Head(offers)) THEN TRUE
    ELSE IF Get(Get(Some(Head(offers)), "badges"), "dealBadge") # None THEN FALSE
    ELSE OfferLoopRaises(Tail(offers))

\* bool(offer.badges.dealBadge)
HasDealBadge(offer) == Get(Get(Some(offer), "badges"), "dealBadge") # None

RECURSIVE FirstWithBadge(_)
FirstWithBadge(offers) ==
    IF offers = << >> THEN None
    ELSE IF HasDealBadge(Head(offers)) THEN Some(Head(offers))
    ELSE FirstWithBadge(Tail(offers))

\* fault: the first offer is taken, badge or not
_select_primary_offer_first(payload) ==
    IF payload.offers = << >> THEN None ELSE Some(payload.offers[1])

\* _select_primary_offer
_select_primary_offer(payload) ==
    IF payload.offers = << >> THEN None
    ELSE IF FirstWithBadge(payload.offers) # None THEN FirstWithBadge(payload.offers)
    ELSE Some(payload.offers[1])

RECURSIVE FirstUrl(_)
FirstUrl(urls) ==
    IF urls = << >> THEN None
    ELSE IF TruthyStr(Head(urls)) THEN Head(urls)
    ELSE FirstUrl(Tail(urls))

RECURSIVE _extract_image(_)
_extract_image(assets) ==
    IF assets = << >> THEN None
    ELSE LET url == FirstUrl(<<Head(assets).largeUrl, Head(assets).extraLargeUrl,
                               Head(assets).mediumUrl>>)
         IN  IF url # None THEN url ELSE _extract_image(Tail(assets))

\* f"{n}" of a digit pair
TwoDigits(n) == ToString(n \div 10) \o ToString(n % 10)

\* f"{price:.2f}" of a price in thousandths (no price of the model is a tie)
Fmt2(mills) ==
    LET cents == (mills + 5) \div 10
    IN  ToString(cents \div 100) \o "." \o TwoDigits(cents % 100)

\* the six values _apply_snapshots extracts from the selected offer
Extracted(payload) ==
    LET offer == _select_primary_offer(payload)
        price_block == Get(offer, "price")
        was_price_block == Get(offer, "wasPrice")
        deal_badge == Get(Get(offer, "badges"), "dealBadge")
    IN  [current_price |-> Get(price_block, "value"),
         price_unit |-> Get(price_block, "unit"),
         regular_price |-> Get(was_price_block, "value"),
         sale_text |-> Get(deal_badge, "text"),
         sale_type |-> StrOr(Get(price_block, "type"), Get(deal_badge, "type")),
         sale_expiry |-> _parse_expiry(StrOr(Get(deal_badge, "expiryDate"),
                                             Get(price_block, "expiryDate"))),
         sale_badge_name |-> Get(deal_badge, "name"),
         stock_status |-> Get(offer, "stockStatus"),
         deal_active |-> deal_badge # None]

\* fault: the sale type is rendered without its "NONE" default
SignatureNoDefault(x) ==
    StrOr(x.sale_type, Some(""))[1]
    \o "|" \o StrOr(x.sale_text, Some(""))[1]
    \o "|" \o (IF x.sale_expiry # None THEN x.sale_expiry[1] ELSE "")
    \o "|" \o (IF x.current_price # None THEN Fmt2(x.current_price[1]) ELSE "")
    \o "|" \o (IF x.regular_price # None THEN Fmt2(x.regular_price[1]) ELSE "")
    \o "|" \o StrOr(x.stock_status, Some(""))[1]

\* signature_parts joined by "|"
Signature(x) ==
    StrOr(x.sale_type, Some("NONE"))[1]
    \o "|" \o StrOr(x.sale_text, Some(""))[1]
    \o "|" \o (IF x.sale_expiry # None THEN x.sale_expiry[1] ELSE "")
    \o "|" \o (IF x.current_price # None THEN Fmt2(x.current_price[1]) ELSE "")
    \o "|" \o (IF x.regular_price # None THEN Fmt2(x.regular_price[1]) ELSE "")
    \o "|" \o StrOr(x.stock_status, Some(""))[1]

\* fault: the new signature is compared with the empty default, not the stored one
ChangedIgnoringStored(watch, signature) == signature # ""

\* changed = signature != (watch.last_signature or "")
Changed(watch, signature) == signature # StrOr(watch.last_signature, Some(""))[1]

\* fault: any change notifies, badge or not
ShouldNotifyOnAnyChange(watch, x) == Changed(watch, Signature(x))

\* should_notify = changed and deal_active
ShouldNotify(watch, x) == Changed(watch, Signature(x)) /\ x.deal_active

\* fault: the batch time leaks into the stored signature
ApplyPayloadStamped(watch, payload, now) ==
    LET x == Extracted(payload)
        image == _extract_image(payload.imageAssets)
    IN  [watch EXCEPT
            !.last_checked_at = Some(now),
            !.name = StrOr(payload.name, watch.name),
            !.brand = StrOr(payload.brand, watch.brand),
            !.image_url = StrOr(image, watch.image_url),
            !.current_price = x.current_price,
            !.price_unit = x.price_unit,
            !.regular_price = x.regular_price,
            !.sale_text = x.sale_text,
            !.sale_type = x.sale_type,
            !.sale_badge_name = x.sale_badge_name,
            !.sale_expiry = x.sale_expiry,
            !.stock_status = x.stock_status,
            !.last_signature = Some(Signature(x) \o "|" \o ToString(now)),
            !.last_change_at =
                IF Changed(watch, Signature(x)) THEN Some(now) ELSE watch.last_change_at,
            !.last_notified_at =
                IF ShouldNotify(watch, x) THEN Some(now) ELSE watch.last_notified_at]

\* fault: every good snapshot counts as a change
ApplyPayloadAlwaysChanged(watch, payload, now) ==
    LET x == Extracted(payload)
        image == _extract_image(payload.imageAssets)
    IN  [watch EXCEPT
            !.last_checked_at = Some(now),
            !.name = StrOr(payload.name, watch.name),
            !.brand = StrOr(payload.brand, watch.brand),
            !.image_url = StrOr(image, watch.image_url),
            !.current_price = x.current_price,
            !.price_unit = x.price_unit,
            !.regular_price = x.regular_price,
            !.sale_text = x.sale_text,
            !.sale_type = x.sale_type,
            !.sale_badge_name = x.sale_badge_name,
            !.sale_expiry = x.sale_expiry,
            !.stock_status = x.stock_status,
            !.last_signature = Some(Signature(x)),
            !.last_change_at = Some(now),
            !.last_notified_at =
                IF ShouldNotify(watch, x) THEN Some(now) ELSE watch.last_notified_at]

\* fault: a payload without a price keeps the cached one, and the label is
\* taken from the product name when none was given
ApplyPayloadKeeping(watch, payload, now) ==
    LET x == Extracted(payload)
        image == _extract_image(payload.imageAssets)
    IN  [watch EXCEPT
            !.last_checked_at = Some(now),
            !.label = StrOr(watch.label, payload.name),
            !.name = StrOr(payload.name, watch.name),
            !.brand = StrOr(payload.brand, watch.brand),
            !.image_url = StrOr(image, watch.image_url),
            !.current_price = IF x.current_price # None THEN x.current_price
                              ELSE watch.current_price,
            !.price_unit = x.price_unit,
            !.regular_price = x.regular_price,
            !.sale_text = x.sale_text,
            !.sale_type = x.sale_type,
            !.sale_badge_name = x.sale_badge_name,
            !.sale_expiry = x.sale_expiry,
            !.stock_status = x.stock_status,
            !.last_signature = Some(Signature(x)),
            !.last_change_at =
                IF Changed(watch, Signature(x)) THEN Some(now) ELSE watch.last_change_at,
            !.last_notified_at =
                IF ShouldNotify(watch, x) THEN Some(now) ELSE watch.last_notified_at]

\* the row as the loop body of _apply_snapshots leaves it for a good snapshot
ApplyPayload(watch, payload, now) ==
    LET x == Extracted(payload)
        image == _extract_image(payload.imageAssets)
    IN  [watch EXCEPT
            !.last_checked_at = Some(now),
            !.name = StrOr(payload.name, watch.name),
            !.brand = StrOr(payload.brand, watch.brand),
            !.image_url = StrOr(image, watch.image_url),
            !.current_price = x.current_price,
            !.price_unit = x.price_unit,
            !.regular_price = x.regular_price,
            !.sale_text = x.sale_text,
            !.sale_type = x.sale_type,
            !.sale_badge_name = x.sale_badge_name,
            !.sale_expiry = x.sale_expiry,
            !.stock_status = x.stock_status,
            !.last_signature = Some(Signature(x)),
            !.last_change_at =
                IF Changed(watch, Signature(x)) THEN Some(now) ELSE watch.last_change_at,
            !.last_notified_at =
                IF ShouldNotify(watch, x) THEN Some(now) ELSE watch.last_notified_at]

\* fault: a failed fetch forgets the stored signature
ApplyFailureReset(watch, now) ==
    [watch EXCEPT !.last_checked_at = Some(now), !.last_signature = None]

\* the row as the loop body leaves it for a failed snapshot
ApplyFailure(watch, now) == [watch EXCEPT !.last_checked_at = Some(now)]

\* notifications.send_notification: without an endpoint the message is only
\* logged; with one it is posted, and a post that fails is logged and
\* swallowed.  The caller gets None in every case.
send_notification(endpoint, posted) ==
    IF ~TruthyStr(endpoint) THEN "logged"
    ELSE IF posted THEN "delivered"
    ELSE "failed"

\* httpx.post(endpoint, ..., timeout=10) is a blocking call made on the thread
\* of _apply_snapshots: send_notification returns to the loop only once the
\* sink has answered, failed or timed out.  Without an endpoint nothing is
\* posted and nothing is waited for.
Awaited(outcome) == outcome \in {"delivered", "failed"}

\* send_notification(title, message, link=watch.url) and what became of it
Notification(watch, outcome) ==
    [watch_id |-> watch.id,
     title |-> StrOr(StrOr(watch.label, watch.name), Some(watch.product_code))[1],
     link |-> watch.url,
     outcome |-> outcome]

(***************************************************************************)
(* The table loblaws_watches.                                              *)
(***************************************************************************)
\* crud.create_loblaws_watch: a row that was never refreshed
NewWatch(id, url, product_code, label) ==
    [id |-> id, url |-> url, product_code |-> product_code, store_id |-> "1032",
     label |-> label,
     name |-> None, brand |-> None, image_url |-> None,
     current_price |-> None, price_unit |-> None, regular_price |-> None,
     sale_text |-> None, sale_expiry |-> None, sale_type |-> None,
     sale_badge_name |-> None, stock_status |-> None,
     last_checked_at |-> None, last_change_at |-> None, last_notified_at |-> None,
     last_signature |-> None]

\* the watches the model starts with: the first one labelled, the others not
InitialWatch(id) ==
    NewWatch(id,
             "https://www.loblaws.ca/en/product/p/2007787400" \o ToString(id) \o "_EA",
             "2007787400" \o ToString(id) \o "_EA",
             IF id = 1 THEN Some("Milk") ELSE None)

(***************************************************************************)
(* refresh_watch_ids: one activation is a run.                             *)
(***************************************************************************)
\* `request` is the HTTP request whose handler called the refresh (None for
\* the interval job), `watch_ids` the argument of a call not yet begun and
\* `response` what the handler answers; `absent` records the targets whose
\* row was gone when _apply_snapshots started
IdleRun ==
    [pc |-> "idle", targets |-> << >>, inflight |-> { }, snapshots |-> << >>,
     pause |-> None, pauses |-> << >>, now |-> None,
     applied |-> 0, session |-> << >>, updated_ids |-> << >>, sent |-> << >>,
     before |-> None, beforeApplied |-> None, absent |-> { },
     request |-> None, watch_ids |-> None, response |-> None]

\* WatchTarget
WatchTarget(watch) ==
    [id |-> watch.id, product_code |-> watch.product_code,
     store_id |-> watch.store_id, url |-> watch.url, label |-> watch.label]

\* _load_targets: the rows in id order, filtered by a non-empty watch_ids
RECURSIVE TargetsFrom(_, _)
TargetsFrom(id, watch_ids) ==
    IF id > NumWatches THEN << >>
    ELSE IF watches[id] = None \/ (watch_ids # { } /\ id \notin watch_ids)
         THEN TargetsFrom(id + 1, watch_ids)
         ELSE <<WatchTarget(watches[id][1])>> \o TargetsFrom(id + 1, watch_ids)

\* fault: the filter on watch_ids is dropped
_load_targets_unfiltered(watch_ids) == TargetsFrom(1, { })

_load_targets(watch_ids) == TargetsFrom(1, watch_ids)

\* the watch_ids the callers pass: none (refresh_all_watches) or one id
\* (refresh_single_watch), which may be the id of no row
WatchIdArgs == {{ }} \cup {{id} : id \in 1 .. NumWatches + 1}

\* refresh_watch_ids up to the fetch loop; no targets: return []
LoadTargets(r, watch_ids, budget) ==
    /\ runs[r].pc = "idle"
    /\ LET targets == _load_targets(watch_ids)
       IN  /\ fetches + Len(targets) <= budget
           /\ fetches' = fetches + Len(targets)
           /\ runs' = [runs EXCEPT ![r] =
                         IF targets = << >> THEN IdleRun
                         ELSE [IdleRun EXCEPT !.pc = "fetch", !.targets = targets]]
    /\ UNCHANGED <<watches, lastApplied, clock, mindVars, linkVars, sysVars>>

\* the target the fetch loop is at
NextTarget(r) == runs[r].targets[Len(runs[r].snapshots) + 1]

\* the GET of fetch_product_payload for a target: product code and store
\* id are the target's
FetchRequest(target) ==
    [watch_id |-> target.id, product_code |-> target.product_code,
     store_id |-> target.store_id]

\* the fetch loop reaches its next target and awaits fetch_product_payload
FetchStart(r) ==
    /\ runs[r].pc = "fetch"
    /\ Len(runs[r].snapshots) < Len(runs[r].targets)
    /\ runs[r].inflight = { }
    /\ runs[r].pause = None
    /\ runs' = [runs EXCEPT ![r].inflight = @ \cup {FetchRequest(NextTarget(r))}]
    /\ UNCHANGED <<watches, lastApplied, clock, fetches, mindVars, linkVars, sysVars>>

\* fault: the polite pause after a good fetch is left out
FetchOkNoPause(r, payload) ==
    /\ runs[r].pc = "fetch"
    /\ \E request \in runs[r].inflight :
          runs' = [runs EXCEPT
                     ![r].inflight = @ \ {request},
                     ![r].snapshots =
                         Append(@, ProductSnapshot(request.watch_id, payload, None))]
    /\ UNCHANGED <<watches, lastApplied, clock, fetches, mindVars, linkVars, sysVars>>

\* fetch_product_payload returns: the snapshot is recorded and the polite
\* pause begins.  The body of the response is a product or JSON null.
FetchOk(r, payload) ==
    /\ runs[r].pc = "fetch"
    /\ \E request \in runs[r].inflight :
          runs' = [runs EXCEPT
                     ![r].inflight = @ \ {request},
                     ![r].snapshots =
                         Append(@, ProductSnapshot(request.watch_id, payload, None)),
                     ![r].pause = Some(PoliteDelayMs)]
    /\ UNCHANGED <<watches, lastApplied, clock, fetches, mindVars, linkVars, sysVars>>

\* fault: a fetch that raises ends the loop
FetchFailBreak(r) ==
    /\ runs[r].pc = "fetch"
    /\ \E request \in runs[r].inflight :
          runs' = [runs EXCEPT
                     ![r].inflight = @ \ {request},
                     ![r].snapshots =
                         Append(@, ProductSnapshot(request.watch_id, None,
                                                   Some("HTTPStatusError"))),
                     ![r].pc = "apply",
                     ![r].now = Some(clock)]
    /\ clock' = clock + 1
    /\ UNCHANGED <<watches, lastApplied, fetches, mindVars, linkVars, sysVars>>

\* fetch_product_payload raises: the error is recorded against the target
\* and the longer pause begins
FetchFail(r) ==
    /\ runs[r].pc = "fetch"
    /\ \E request \in runs[r].inflight :
          runs' = [runs EXCEPT
                     ![r].inflight = @ \ {request},
                     ![r].snapshots =
                         Append(@, ProductSnapshot(request.watch_id, None,
                                                   Some("HTTPStatusError"))),
                     ![r].pause = Some(FailureDelayMs)]
    /\ UNCHANGED <<watches, lastApplied, clock, fetches, mindVars, linkVars, sysVars>>

\* asyncio.sleep returns and the loop goes on
Sleep(r) ==
    /\ runs[r].pc = "fetch"
    /\ runs[r].pause # None
    /\ runs' = [runs EXCEPT ![r].pauses = Append(@, runs[r].pause[1]),
                            ![r].pause = None]
    /\ UNCHANGED <<watches, lastApplied, clock, fetches, mindVars, linkVars, sysVars>>

\* _apply_snapshots starts: now = datetime.now(timezone.utc), session opened
BeginApply(r) ==
    /\ runs[r].pc = "fetch"
    /\ Len(runs[r].snapshots) = Len(runs[r].targets)
    /\ runs[r].inflight = { }
    /\ runs[r].pause = None
    /\ runs' = [runs EXCEPT ![r].pc = "apply", ![r].now = Some(clock),
                            ![r].absent = {runs[r].targets[i].id :
                                              i \in {j \in DOMAIN runs[r].targets :
                                                  watches[runs[r].targets[j].id] = None}}]
    /\ clock' = clock + 1
    /\ UNCHANGED <<watches, lastApplied, fetches, mindVars, linkVars, sysVars>>

\* the loop body of _apply_snapshots for one snapshot: the row is read from
\* the table, changed in the session (nothing is flushed before the commit)
\* and the notification, if any, is sent; `posted` is whether the sink took
\* the post.  Nothing in the loop catches an exception: one that the body
\* raises leaves the session scope, which rolls the session back.
ApplyBody(run, posted) ==
    LET snapshot == run.snapshots[run.applied + 1]
        found == watches[snapshot.watch_id]
        now == run.now[1]
    IN  IF found = None
        THEN [run EXCEPT !.applied = @ + 1]
        ELSE IF SnapshotOk(snapshot) /\ OfferLoopRaises(snapshot.payload[1].offers)
        THEN [run EXCEPT !.pc = "raised", !.session = << >>, !.updated_ids = << >>]
        ELSE LET watch == found[1]
                 ok == SnapshotOk(snapshot)
                 new == IF ok THEN ApplyPayload(watch, snapshot.payload[1], now)
                        ELSE ApplyFailure(watch, now)
                 notify == ok /\ ShouldNotify(watch, Extracted(snapshot.payload[1]))
             IN  [run EXCEPT
                     !.applied = @ + 1,
                     !.updated_ids = Append(@, watch.id),
                     !.session = Append(@, [loaded |-> watch, new |-> new,
                                            payload |-> IF ok THEN snapshot.payload
                                                        ELSE None]),
                     !.sent =
                         IF notify
                         THEN Append(@, Notification(new,
                                 send_notification(env.LOBLAWS_NOTIFY_ENDPOINT, posted)))
                         ELSE @]

ApplySnapshot(r) ==
    /\ runs[r].pc = "apply"
    /\ runs[r].applied < Len(runs[r].snapshots)
    /\ \E posted \in BOOLEAN : runs' = [runs EXCEPT ![r] = ApplyBody(runs[r], posted)]
    /\ UNCHANGED <<watches, lastApplied, clock, fetches, mindVars, linkVars, sysVars>>

\* the UPDATE the flush emits for one object of the session: the columns
\* whose value differs from the loaded one
Flush(current, entry) ==
    [f \in DOMAIN current |->
        IF entry.new[f] # entry.loaded[f] THEN entry.new[f] ELSE current[f]]

RECURSIVE FlushAll(_, _)
FlushAll(table, session) ==
    IF session = << >> THEN table
    ELSE LET entry == Head(session)
             id == entry.loaded.id
         IN  FlushAll([table EXCEPT ![id] = Some(Flush(table[id][1], entry))],
                      Tail(session))

RECURSIVE RecordApplied(_, _)
RecordApplied(history, session) ==
    IF session = << >> THEN history
    ELSE LET entry == Head(session)
         IN  RecordApplied(IF entry.payload # None
                           THEN [history EXCEPT ![entry.loaded.id] = entry.payload]
                           ELSE history,
                           Tail(session))

\* the rows of the session that are no longer in the table
Stale(session) ==
    {i \in DOMAIN session : watches[session[i].loaded.id] = None}

\* session_scope commits on the normal exit of the loop.  The UPDATE of a
\* row that was deleted since the loop read it matches no row: the flush
\* raises, the session is rolled back and refresh_watch_ids raises.
Commit(r) ==
    /\ runs[r].pc = "apply"
    /\ runs[r].applied = Len(runs[r].snapshots)
    /\ IF Stale(runs[r].session) # { }
       THEN /\ runs' = [runs EXCEPT ![r].pc = "raised",
                                    ![r].session = << >>,
                                    ![r].updated_ids = << >>]
            /\ UNCHANGED <<watches, lastApplied>>
       ELSE /\ watches' = FlushAll(watches, runs[r].session)
            /\ lastApplied' = RecordApplied(lastApplied, runs[r].session)
            /\ runs' = [runs EXCEPT ![r].pc = "done",
                                    ![r].before = Some(watches),
                                    ![r].beforeApplied = Some(lastApplied)]
    /\ UNCHANGED <<clock, fetches, mindVars, linkVars, sysVars>>

\* an HTTP response: status and, where the handler serializes rows, the body
Response(status, body) == [status |-> status, body |-> body]

\* what a handler of routers/loblaws.py does once its refresh has returned:
\* it reads the row or rows again (session.refresh fails on a row that is
\* gone) and serializes them
AfterRefresh(run) ==
    LET endpoint == run.request[1].endpoint
        Row(status) ==
            LET watch_id == CHOOSE id \in run.watch_ids[1] : TRUE
            IN  IF watch_id \in WatchIds /\ watches[watch_id] # None
                THEN Response(status, watches[watch_id])
                ELSE Response(500, None)
    IN  CASE endpoint = "create_watch" -> Row(201)
          [] endpoint = "update_watch" -> Row(200)
          [] endpoint = "refresh_watch_endpoint" ->
                IF run.updated_ids = << >> THEN Response(404, None) ELSE Row(200)
          [] endpoint = "refresh_all_endpoint" ->
                Response(200, Some(_load_targets({ })))

\* refresh_watch_ids returns updated_ids to its caller: the interval job
\* logs them, a handler goes on to its response.  Or it raises what
\* _apply_snapshots raised: the job ends, a handler answers 500.
Return(r) ==
    /\ runs[r].pc \in {"done", "raised"}
    /\ runs' = [runs EXCEPT ![r] =
          IF runs[r].request = None THEN IdleRun
          ELSE [IdleRun EXCEPT
                   !.pc = "respond",
                   !.request = runs[r].request,
                   !.response = IF runs[r].pc = "raised" THEN Some(Response(500, None))
                                ELSE Some(AfterRefresh(runs[r]))]]
    /\ UNCHANGED <<watches, lastApplied, clock, fetches, mindVars, linkVars, sysVars>>

\* the bodies upstream answers with when its schema has moved: a page on
\* sale, as before, and a page whose offers are not objects
ShapePayloads == {Product(<<OfferSale>>), PayloadOffersNotObjects}

\* refresh_watch_ids from its fetch loop on
RefreshSteps(r) ==
    \/ FetchStart(r)
    \/ \E payload \in {Some(p) : p \in Payloads} \cup {None} : FetchOk(r, payload)
    \/ FetchFail(r)
    \/ Sleep(r)
    \/ BeginApply(r)
    \/ ApplySnapshot(r)
    \/ Commit(r)
    \/ Return(r)

Refresh(r, budget) ==
    \/ \E watch_ids \in WatchIdArgs : LoadTargets(r, watch_ids, budget)
    \/ RefreshSteps(r)

(***************************************************************************)
(* Mind-map documents: PUT /mindmaps/{doc_id}.                             *)
(***************************************************************************)
DocIds == {1}
MindClients == {1, 2}

\* the documents a caller may send as `data`
Datas == {[root |-> "a"], [root |-> "b"]}
Titles == {"Plan", "Notes"}

\* json.dumps(payload.data, ensure_ascii=False)
json_dumps(data) == "{\"root\": \"" \o data.root \o "\"}"

\* json.loads(doc.data_json)
json_loads(text) == CHOOSE data \in Datas : json_dumps(data) = text

\* a MindMapDoc row as create_mindmap_doc leaves it: the version column
\* starts at its default
NewDoc(id, title, data) ==
    [id |-> id, title |-> title, data_json |-> json_dumps(data), version |-> 1]

\* the body of a MindMapDocUpdate request
MindMapDocUpdate(title, data, expected_version, force) ==
    [title |-> title, data |-> data, expected_version |-> expected_version,
     force |-> force]

DocUpdates ==
    {MindMapDocUpdate(title, data, expected_version, force) :
        title \in {None} \cup {Some(t) : t \in Titles},
        data \in {None} \cup {Some(d) : d \in Datas},
        expected_version \in {None} \cup {Some(v) : v \in 1 .. MaxVersion},
        force \in BOOLEAN}

\* the updates two editors of one document send: new data, the version
\* they last saw, forced or not
OverlapUpdates ==
    {MindMapDocUpdate(None, Some(data), Some(expected_version), force) :
        data \in Datas, expected_version \in 1 .. 2, force \in BOOLEAN}

\* _serialize_doc
_serialize_doc(doc) ==
    [id |-> doc.id, title |-> doc.title, data |-> json_loads(doc.data_json),
     version |-> doc.version]

IdleRequest == [pc |-> "idle", doc_id |-> None, payload |-> None, doc |-> None,
                response |-> None]

\* create_doc / crud.create_mindmap_doc
CreateDoc(id, title, data) ==
    /\ docs[id] = None
    /\ docs' = [docs EXCEPT ![id] = Some(NewDoc(id, title, data))]
    /\ UNCHANGED <<mreqs, watchVars, linkVars, sysVars>>

\* fault: the version check does not look at force
VersionConflictIgnoringForce(doc, payload) ==
    /\ payload.expected_version # None
    /\ payload.expected_version[1] # doc.version

\* the version check of update_doc
VersionConflict(doc, payload) ==
    /\ payload.expected_version # None
    /\ payload.expected_version[1] # doc.version
    /\ ~payload.force

\* update_doc up to the call of crud.update_mindmap_doc: the row is read,
\* a missing row answers 404 and a stale expected_version answers 409
UpdateDocRead(c, doc_id, payload) ==
    /\ mreqs[c].pc = "idle"
    /\ docs[doc_id] # None => docs[doc_id][1].version < MaxVersion
    /\ mreqs' = [mreqs EXCEPT ![c] =
          IF docs[doc_id] = None
          THEN [IdleRequest EXCEPT !.pc = "done", !.doc_id = Some(doc_id),
                                   !.payload = Some(payload),
                                   !.response = Some([status |-> 404])]
          ELSE IF VersionConflict(docs[doc_id][1], payload)
          THEN [IdleRequest EXCEPT !.pc = "done", !.doc_id = Some(doc_id),
                                   !.payload = Some(payload), !.doc = docs[doc_id],
                                   !.response =
                                      Some([status |-> 409,
                                            message |-> "Version conflict",
                                            current |-> _serialize_doc(docs[doc_id][1])])]
          ELSE [IdleRequest EXCEPT !.pc = "write", !.doc_id = Some(doc_id),
                                   !.payload = Some(payload), !.doc = docs[doc_id]]]
    /\ UNCHANGED <<docs, watchVars, linkVars, sysVars>>

\* fault: the version moves only when the content does
update_mindmap_doc_on_change(doc, payload, force) ==
    [doc EXCEPT
        !.title = IF payload.title # None THEN payload.title[1] ELSE @,
        !.data_json = IF payload.data # None THEN json_dumps(payload.data[1]) ELSE @,
        !.version = IF \/ force
                       \/ (payload.data # None /\ json_dumps(payload.data[1]) # doc.data_json)
                       \/ (payload.title # None /\ payload.title[1] # doc.title)
                    THEN (IF @ = 0 THEN 1 ELSE @) + 1
                    ELSE @]

\* crud.update_mindmap_doc: the attributes it assigns to the loaded row
update_mindmap_doc(doc, payload, force) ==
    [doc EXCEPT
        !.title = IF payload.title # None THEN payload.title[1] ELSE @,
        !.data_json = IF payload.data # None THEN json_dumps(payload.data[1]) ELSE @,
        !.version = IF force \/ payload.data # None \/ payload.title # None
                    THEN (IF @ = 0 THEN 1 ELSE @) + 1
                    ELSE @]

\* crud.update_mindmap_doc commits and refreshes; update_doc answers 200
UpdateDocWrite(c) ==
    /\ mreqs[c].pc = "write"
    /\ LET id == mreqs[c].doc_id[1]
           payload == mreqs[c].payload[1]
           loaded == mreqs[c].doc[1]
           new == update_mindmap_doc(loaded, payload, payload.force)
           stored == Flush(docs[id][1], [loaded |-> loaded, new |-> new])
       IN  /\ docs' = [docs EXCEPT ![id] = Some(stored)]
           /\ mreqs' = [mreqs EXCEPT ![c].pc = "done",
                                     ![c].response =
                                        Some([status |-> 200,
                                              body |-> _serialize_doc(stored)])]
    /\ UNCHANGED <<watchVars, linkVars, sysVars>>

\* the response leaves
UpdateDocReturn(c) ==
    /\ mreqs[c].pc = "done"
    /\ mreqs' = [mreqs EXCEPT ![c] = IdleRequest]
    /\ UNCHANGED <<docs, watchVars, linkVars, sysVars>>

UpdateDoc(c) ==
    \/ \E doc_id \in DocIds, payload \in DocUpdates : UpdateDocRead(c, doc_id, payload)
    \/ UpdateDocWrite(c)
    \/ UpdateDocReturn(c)

(***************************************************************************)
(* Links: POST /links and POST /links/click.                               *)
(***************************************************************************)
LinkIds == {1, 2}
Clickers == 1 .. NumClickers

\* a URL is its text without a trailing slash, and whether it ends with one
Url(text, slash) == [text |-> text, slash |-> slash]

Urls == {Url("https://a.example/x", FALSE), Url("https://a.example/x", TRUE),
         Url("https://b.example/y", FALSE)}

\* the body of a LinkClickPayload request, strings already stripped
LinkClickPayload(url, title, category) ==
    [url |-> url, title |-> title, category |-> category]

ClickPayloads ==
    {LinkClickPayload(url, title, category) :
        url \in Urls,
        title \in {None, Some("Example")},
        category \in {None, Some("tools")}}

\* get_link_by_url: the rows whose url is the given one, with or without
\* its trailing slash; .first() takes any one of them
LinksByUrl(url) ==
    {id \in LinkIds : links[id] # None /\ links[id][1].url.text = url.text}

\* the id the table gives the next row
FreeLinkIds == {id \in LinkIds : links[id] = None}
NextLinkId == CHOOSE id \in FreeLinkIds : \A other \in FreeLinkIds : id <= other

\* a Link row as crud.create_link inserts it
NewLink(id, url, title, category) ==
    [id |-> id, url |-> url, title |-> title, category |-> category,
     order_index |-> 0, is_active |-> TRUE,
     status |-> "unknown", last_checked_at |-> None,
     click_count |-> 0, last_clicked_at |-> None]

\* the unique constraint on links.url
UrlTaken(url) == \E id \in LinkIds : links[id] # None /\ links[id][1].url = url

\* create_link (POST /links): crud.create_link
CreateLink(url, title, category) ==
    /\ FreeLinkIds # { }
    /\ ~UrlTaken(url)
    /\ links' = [links EXCEPT ![NextLinkId] = Some(NewLink(NextLinkId, url, title, category))]
    /\ UNCHANGED <<clicks, watchVars, mindVars, sysVars>>

\* `before` is the table as the request found it
IdleClick == [pc |-> "idle", payload |-> None, link |-> None, status |-> None,
              before |-> None]

\* register_click up to crud.record_link_click or crud.create_link: the
\* lookup, and the early return of a click without title or category
ClickLookup(k, payload) ==
    /\ clicks[k].pc = "idle"
    /\ \/ /\ LinksByUrl(payload.url) = { }
          /\ clicks' = [clicks EXCEPT ![k] =
                IF payload.title = None \/ payload.category = None
                THEN [IdleClick EXCEPT !.pc = "done", !.payload = Some(payload),
                                       !.status = Some(204), !.before = Some(links)]
                ELSE [IdleClick EXCEPT !.pc = "create", !.payload = Some(payload),
                                       !.before = Some(links)]]
       \/ \E id \in LinksByUrl(payload.url) :
             clicks' = [clicks EXCEPT ![k] =
                [IdleClick EXCEPT !.pc = "record", !.payload = Some(payload),
                                  !.link = links[id], !.before = Some(links)]]
    /\ UNCHANGED <<links, watchVars, mindVars, sysVars>>

\* crud.create_link from register_click: the insert commits and the row is
\* read back, or the unique constraint on url fails the request
ClickCreate(k) ==
    /\ clicks[k].pc = "create"
    /\ LET payload == clicks[k].payload[1]
       IN  IF UrlTaken(payload.url) \/ FreeLinkIds = { }
           THEN /\ clicks' = [clicks EXCEPT ![k].pc = "done", ![k].status = Some(500)]
                /\ UNCHANGED links
           ELSE LET link == NewLink(NextLinkId, payload.url, payload.title[1],
                                    payload.category[1])
                IN  /\ links' = [links EXCEPT ![NextLinkId] = Some(link)]
                    /\ clicks' = [clicks EXCEPT ![k].pc = "record", ![k].link = Some(link)]
    /\ UNCHANGED <<watchVars, mindVars, sysVars>>

\* fault: the click is counted but not dated
record_link_click_undated(link, now) == [link EXCEPT !.click_count = @ + 1]

\* crud.record_link_click: the attributes it assigns to the loaded row
record_link_click(link, now) ==
    [link EXCEPT !.click_count = @ + 1, !.last_clicked_at = Some(now)]

\* crud.record_link_click commits; register_click answers 204
ClickRecord(k) ==
    /\ clicks[k].pc = "record"
    /\ LET loaded == clicks[k].link[1]
           new == record_link_click(loaded, clock)
       IN  links' = [links EXCEPT ![loaded.id] =
                        Some(Flush(links[loaded.id][1], [loaded |-> loaded, new |-> new]))]
    /\ clicks' = [clicks EXCEPT ![k].pc = "done", ![k].status = Some(204)]
    /\ clock' = clock + 1
    /\ UNCHANGED <<watches, lastApplied, runs, fetches, mindVars, sysVars>>

RegisterClick(k) ==
    \/ \E payload \in ClickPayloads : ClickLookup(k, payload)
    \/ ClickCreate(k)
    \/ ClickRecord(k)

\* the response leaves; the caller may click again
ClickReturn(k) ==
    /\ clicks[k].pc = "done"
    /\ clock <= MaxClicks
    /\ clicks' = [clicks EXCEPT ![k] = IdleClick]
    /\ UNCHANGED <<links, watchVars, mindVars, sysVars>>

(***************************************************************************)
(* app/auth.py: the shared-secret gate.  A string the gate inspects        *)
(* character by character is a sequence of one-character strings.          *)
(***************************************************************************)
\* the secret the operator chose
RawSecret ==
    <<"h", "u", "n", "t", "e", "r", "2">>

\* the secret typed with a leading blank
RawSecretPadded ==
    <<" ", "h", "u", "n", "t", "e", "r", "2">>

\* another secret
WrongSecret ==
    <<"l", "e", "t", "m", "e", "i", "n">>

\* hashlib.sha256(b"hunter2").hexdigest()
SecretHash ==
    <<"f", "5", "2", "f", "b", "d", "3", "2", "b", "2", "b", "3", "b", "8", "6", "f",
    "f", "8", "8", "e", "f", "6", "c", "4", "9", "0", "6", "2", "8", "2", "8", "5",
    "f", "4", "8", "2", "a", "f", "1", "5", "d", "d", "c", "b", "2", "9", "5", "4",
    "1", "f", "9", "4", "b", "c", "f", "5", "2", "6", "a", "3", "f", "6", "c", "7">>

\* the same digest in upper case
SecretHashUpper ==
    <<"F", "5", "2", "F", "B", "D", "3", "2", "B", "2", "B", "3", "B", "8", "6", "F",
    "F", "8", "8", "E", "F", "6", "C", "4", "9", "0", "6", "2", "8", "2", "8", "5",
    "F", "4", "8", "2", "A", "F", "1", "5", "D", "D", "C", "B", "2", "9", "5", "4",
    "1", "F", "9", "4", "B", "C", "F", "5", "2", "6", "A", "3", "F", "6", "C", "7">>

\* the digest with a blank on either side
SecretHashPadded ==
    <<" ", "f", "5", "2", "f", "b", "d", "3", "2", "b", "2", "b", "3", "b", "8", "6",
    "f", "f", "8", "8", "e", "f", "6", "c", "4", "9", "0", "6", "2", "8", "2", "8",
    "5", "f", "4", "8", "2", "a", "f", "1", "5", "d", "d", "c", "b", "2", "9", "5",
    "4", "1", "f", "9", "4", "b", "c", "f", "5", "2", "6", "a", "3", "f", "6", "c",
    "7", " ">>

\* a secret that is itself 64 hexadecimal characters
HexSecret ==
    <<"d", "e", "a", "d", "b", "e", "e", "f", "d", "e", "a", "d", "b", "e", "e", "f",
    "d", "e", "a", "d", "b", "e", "e", "f", "d", "e", "a", "d", "b", "e", "e", "f",
    "d", "e", "a", "d", "b", "e", "e", "f", "d", "e", "a", "d", "b", "e", "e", "f",
    "d", "e", "a", "d", "b", "e", "e", "f", "d", "e", "a", "d", "b", "e", "e", "f">>

\* hashlib.sha256 of HexSecret
HexSecretHash ==
    <<"2", "4", "7", "d", "0", "8", "f", "3", "e", "1", "3", "9", "3", "8", "b", "2",
    "4", "4", "f", "5", "e", "c", "d", "8", "9", "6", "6", "f", "1", "7", "7", "8",
    "e", "5", "e", "7", "2", "b", "1", "7", "5", "8", "2", "0", "f", "4", "6", "b",
    "a", "8", "6", "c", "9", "c", "0", "3", "9", "2", "7", "2", "a", "f", "f", "a">>

\* the tokens a request may present
Tokens ==
    {RawSecret, RawSecretPadded, WrongSecret, SecretHash, SecretHashUpper,
     SecretHashPadded, HexSecret, HexSecretHash}

\* hashlib.sha256(text.encode("utf-8")).hexdigest() of the other tokens
Sha256OfRawSecretPadded ==
    <<"f", "1", "2", "c", "2", "c", "3", "7", "8", "b", "a", "e", "8", "4", "4", "0",
    "e", "5", "f", "e", "2", "1", "d", "1", "d", "e", "6", "9", "6", "f", "b", "6",
    "a", "5", "1", "c", "4", "e", "5", "9", "0", "e", "1", "9", "d", "9", "3", "5",
    "e", "b", "4", "1", "c", "3", "7", "4", "6", "1", "e", "7", "c", "e", "8", "e">>

Sha256OfWrongSecret ==
    <<"1", "c", "8", "b", "f", "e", "8", "f", "8", "0", "1", "d", "7", "9", "7", "4",
    "5", "c", "4", "6", "3", "1", "d", "0", "9", "f", "f", "f", "3", "6", "c", "8",
    "2", "a", "a", "3", "7", "f", "c", "4", "c", "c", "e", "4", "f", "c", "9", "4",
    "6", "6", "8", "3", "d", "7", "b", "3", "3", "6", "b", "6", "3", "0", "3", "2">>

Sha256OfSecretHash ==
    <<"b", "6", "f", "f", "4", "3", "3", "7", "9", "b", "2", "5", "b", "8", "e", "e",
    "6", "a", "4", "f", "c", "b", "1", "5", "0", "c", "0", "9", "2", "4", "8", "4",
    "2", "c", "f", "0", "0", "9", "6", "5", "9", "2", "5", "4", "9", "4", "c", "5",
    "9", "f", "e", "1", "6", "5", "5", "3", "0", "4", "5", "9", "2", "d", "2", "2">>

Sha256OfSecretHashUpper ==
    <<"3", "f", "9", "a", "c", "5", "0", "c", "2", "3", "c", "4", "6", "3", "1", "8",
    "4", "a", "7", "c", "6", "2", "7", "4", "a", "1", "3", "d", "5", "d", "5", "0",
    "6", "b", "6", "1", "4", "1", "a", "4", "1", "8", "7", "1", "7", "3", "e", "8",
    "3", "e", "0", "2", "9", "7", "1", "4", "d", "6", "f", "5", "0", "b", "3", "1">>

Sha256OfSecretHashPadded ==
    <<"e", "5", "9", "4", "6", "f", "9", "6", "1", "a", "8", "f", "e", "a", "9", "8",
    "9", "4", "8", "b", "b", "a", "a", "b", "b", "0", "e", "7", "6", "c", "5", "1",
    "5", "3", "c", "6", "e", "f", "9", "f", "b", "3", "6", "7", "a", "2", "9", "1",
    "2", "a", "a", "b", "1", "e", "a", "5", "a", "2", "f", "a", "b", "a", "c", "6">>

Sha256OfHexSecretHash ==
    <<"4", "f", "0", "8", "8", "c", "6", "3", "e", "6", "c", "4", "f", "1", "f", "b",
    "0", "3", "8", "3", "3", "3", "e", "3", "6", "3", "6", "9", "1", "d", "3", "2",
    "8", "f", "a", "c", "a", "2", "9", "a", "6", "7", "6", "d", "b", "f", "c", "d",
    "0", "f", "3", "8", "b", "f", "f", "3", "3", "f", "3", "8", "b", "d", "0", "3">>

\* hashlib.sha256(text.encode("utf-8")).hexdigest()
sha256_hexdigest(text) ==
    CASE text = RawSecret -> SecretHash
      [] text = RawSecretPadded -> Sha256OfRawSecretPadded
      [] text = WrongSecret -> Sha256OfWrongSecret
      [] text = SecretHash -> Sha256OfSecretHash
      [] text = SecretHashUpper -> Sha256OfSecretHashUpper
      [] text = SecretHashPadded -> Sha256OfSecretHashPadded
      [] text = HexSecret -> HexSecretHash
      [] text = HexSecretHash -> Sha256OfHexSecretHash

\* bool(x) of an optional string of characters
TruthyChars(x) == x # None /\ x[1] # << >>

\* the ASCII letters
LowerLetters ==
    <<"a", "b", "c", "d", "e", "f", "g", "h", "i", "j", "k", "l", "m",
      "n", "o", "p", "q", "r", "s", "t", "u", "v", "w", "x", "y", "z">>
UpperLetters ==
    <<"A", "B", "C", "D", "E", "F", "G", "H", "I", "J", "K", "L", "M",
      "N", "O", "P", "Q", "R", "S", "T", "U", "V", "W", "X", "Y", "Z">>

\* str.lower() and str.upper() of one character
LowerChar(c) ==
    IF \E i \in 1 .. Len(UpperLetters) : UpperLetters[i] = c
    THEN LowerLetters[CHOOSE i \in 1 .. Len(UpperLetters) : UpperLetters[i] = c]
    ELSE c

UpperChar(c) ==
    IF \E i \in 1 .. Len(LowerLetters) : LowerLetters[i] = c
    THEN UpperLetters[CHOOSE i \in 1 .. Len(LowerLetters) : LowerLetters[i] = c]
    ELSE c

\* str.lower(), str.upper()
Lower(text) == [i \in 1 .. Len(text) |-> LowerChar(text[i])]
Upper(text) == [i \in 1 .. Len(text) |-> UpperChar(text[i])]

\* str.strip()
RECURSIVE StripLeft(_)
StripLeft(text) ==
    IF text # << >> /\ Head(text) = " " THEN StripLeft(Tail(text)) ELSE text

RECURSIVE StripRight(_)
StripRight(text) ==
    IF text # << >> /\ text[Len(text)] = " "
    THEN StripRight(SubSeq(text, 1, Len(text) - 1))
    ELSE text

Strip(text) == StripRight(StripLeft(text))

\* the characters of "0123456789abcdef"
HexDigits ==
    {"0", "1", "2", "3", "4", "5", "6", "7", "8", "9", "a", "b", "c", "d", "e", "f"}

\* what the gate reads of a request: the query parameter and the two headers
AuthRequest(token, x_private_token, x_loblaws_token) ==
    [token |-> token, x_private_token |-> x_private_token,
     x_loblaws_token |-> x_loblaws_token]

\* query_params.get("token") or headers.get("X-Private-Token")
\*     or headers.get("X-Loblaws-Token")
Password(request) ==
    IF TruthyChars(request.token) THEN request.token
    ELSE IF TruthyChars(request.x_private_token) THEN request.x_private_token
    ELSE request.x_loblaws_token

\* fault: the token is not stripped before it is taken for a digest
require_manage_auth_unstripped(expected_hash, request) ==
    IF ~TruthyChars(expected_hash) THEN None
    ELSE LET password == Password(request)
         IN  IF ~TruthyChars(password) THEN Some(401)
             ELSE LET lowered == Lower(password[1])
                      token_hash ==
                          IF \/ Len(lowered) # HashLen
                             \/ \E i \in 1 .. Len(lowered) : lowered[i] \notin HexDigits
                          THEN sha256_hexdigest(password[1])
                          ELSE lowered
                  IN  IF token_hash # Lower(expected_hash[1]) THEN Some(401) ELSE None

\* require_manage_auth: None when the request may pass, the status of the
\* HTTPException it raises otherwise
require_manage_auth(expected_hash, request) ==
    IF ~TruthyChars(expected_hash) THEN None
    ELSE LET password == Password(request)
         IN  IF ~TruthyChars(password) THEN Some(401)
             ELSE LET stripped == Lower(Strip(password[1]))
                      token_hash ==
                          IF \/ Len(stripped) # HashLen
                             \/ \E i \in 1 .. Len(stripped) : stripped[i] \notin HexDigits
                          THEN sha256_hexdigest(password[1])
                          ELSE stripped
                  IN  IF token_hash # Lower(expected_hash[1]) THEN Some(401) ELSE None

\* the requests the gate is tried on
AuthRequests ==
    {AuthRequest(token, x_private_token, x_loblaws_token) :
        token \in {None, Some(<< >>)} \cup {Some(t) : t \in Tokens},
        x_private_token \in {None, Some(RawSecret)},
        x_loblaws_token \in {None, Some(WrongSecret)}}

\* PRIVATE_PAGE_PASSWORD_HASH: unset, empty, or a digest in either case
AuthEnvironments ==
    {[LOBLAWS_NOTIFY_ENDPOINT |-> None, PRIVATE_PAGE_PASSWORD_HASH |-> expected_hash] :
        expected_hash \in {None, Some(<< >>), Some(SecretHash), Some(SecretHashUpper),
                           Some(HexSecretHash)}}

NoCall == [fn |-> "none"]

(***************************************************************************)
(* app/loblaws.py: extract_product_code, on the characters of the URL.     *)
(***************************************************************************)
\* the characters the URLs of the model are written in
UrlAlphabet == {"/", "p", "P", "a", "?", "#", " "}

\* the URLs of the specification's example and of the tests' shape
ExampleUrls ==
    { <<"/", "p", "/", "A", "B", "C", "1", "2", "3", "?", "x", "=", "1">>,
      <<"/", "e", "n", "/", "p", "/", "2", "0", "0", "7", "_", "E", "A">>,
      <<"/", "e", "n", "/", "m", "i", "l", "k">> }

ProductUrls ==
    UNION {[1 .. n -> UrlAlphabet] : n \in 0 .. MaxUrlLen} \cup ExampleUrls

\* the characters that [^/?#] excludes
SegmentStops == {"/", "?", "#"}

\* _PRODUCT_CODE_RE matches at position i: "/p/" in either case, then at
\* least one character of the segment
MatchesAt(url, i) ==
    /\ i + 3 <= Len(url)
    /\ url[i] = "/"
    /\ LowerChar(url[i + 1]) = "p"
    /\ url[i + 2] = "/"
    /\ url[i + 3] \notin SegmentStops

\* [^/?#]+ is greedy: the longest run of segment characters from position i
RECURSIVE SegmentFrom(_, _)
SegmentFrom(url, i) ==
    IF i > Len(url) \/ url[i] \in SegmentStops THEN << >>
    ELSE <<url[i]>> \o SegmentFrom(url, i + 1)

\* text.split(sep)[0]
RECURSIVE SplitFirst(_, _)
SplitFirst(text, sep) ==
    IF text = << >> \/ Head(text) = sep THEN << >>
    ELSE <<Head(text)>> \o SplitFirst(Tail(text), sep)

\* fault: the code is returned as the URL spells it
extract_product_code_as_written(url) ==
    LET hits == {i \in 1 .. Len(url) : MatchesAt(url, i)}
    IN  IF hits = { } THEN [raised |-> Some("ValueError"), code |-> None]
        ELSE LET first == CHOOSE i \in hits : \A j \in hits : i <= j
                 code == Strip(SplitFirst(SegmentFrom(url, first + 3), "?"))
             IN  IF code = << >> THEN [raised |-> Some("ValueError"), code |-> None]
                 ELSE [raised |-> None, code |-> Some(code)]

\* extract_product_code: the code it returns or the error it raises
extract_product_code(url) ==
    LET hits == {i \in 1 .. Len(url) : MatchesAt(url, i)}
    IN  IF hits = { } THEN [raised |-> Some("ValueError"), code |-> None]
        ELSE LET first == CHOOSE i \in hits : \A j \in hits : i <= j
                 code == Strip(SplitFirst(SegmentFrom(url, first + 3), "?"))
             IN  IF code = << >> THEN [raised |-> Some("ValueError"), code |-> None]
                 ELSE [raised |-> None, code |-> Some(Upper(code))]

\* the function is applied to the URL it was given
ExtractProductCode ==
    /\ call.fn = "extract_product_code"
    /\ call.result = None
    /\ call' = [call EXCEPT !.result = Some(extract_product_code(call.url))]
    /\ UNCHANGED <<watchVars, mindVars, linkVars, env, sched, health>>

\* a request comes to the gate
Authenticate(request) ==
    /\ call' = [fn |-> "require_manage_auth", request |-> request,
                raised |-> require_manage_auth(env.PRIVATE_PAGE_PASSWORD_HASH, request)]
    /\ UNCHANGED <<watchVars, mindVars, linkVars, env, sched, health>>

(***************************************************************************)
(* app/routers/loblaws.py: the mutating endpoints.  A handler runs in the  *)
(* record of the refresh it may call.                                      *)
(***************************************************************************)
\* str of a sequence of characters
RECURSIVE Str(_)
Str(text) == IF text = << >> THEN "" ELSE Head(text) \o Str(Tail(text))

\* a product page not watched yet, its code in lower case
UrlNewProduct ==
    <<"h", "t", "t", "p", "s", ":", "/", "/", "w", "w", "w", ".", "l", "o", "b", "l",
      "a", "w", "s", ".", "c", "a", "/", "e", "n", "/", "m", "i", "l", "k", "/", "p",
      "/", "2", "0", "0", "7", "7", "8", "7", "4", "0", "0", "3", "_", "e", "a", "?",
      "x", "=", "1">>

\* a page of the shop that is not a product page
UrlNoProduct ==
    <<"h", "t", "t", "p", "s", ":", "/", "/", "w", "w", "w", ".", "l", "o", "b", "l",
      "a", "w", "s", ".", "c", "a", "/", "e", "n", "/", "m", "i", "l", "k">>

\* the page the first watch of the model is on
UrlWatched ==
    <<"h", "t", "t", "p", "s", ":", "/", "/", "w", "w", "w", ".", "l", "o", "b", "l",
      "a", "w", "s", ".", "c", "a", "/", "e", "n", "/", "p", "r", "o", "d", "u", "c",
      "t", "/", "p", "/", "2", "0", "0", "7", "7", "8", "7", "4", "0", "0", "1", "_",
      "E", "A">>

\* the bodies of POST /loblaws/watches: LoblawsWatchCreate
WatchCreates ==
    {[url |-> url, label |-> label, store_id |-> "1032"] :
        url \in {UrlNewProduct, UrlNoProduct, UrlWatched},
        label \in {None, Some("Oat milk")}}

\* the bodies of PATCH /loblaws/watches/{id}: the fields that were set
WatchUpdates == {[label |-> Some("Oat milk")], [label |-> None], [store_id |-> "1050"]}

\* how the callers of the model authenticate: not at all, with the secret,
\* with another secret
ApiAuths ==
    {AuthRequest(token, None, None) : token \in {None, Some(RawSecret), Some(WrongSecret)}}

\* a handler answered without calling the refresh
Answered(request, status) ==
    [IdleRun EXCEPT !.pc = "respond", !.request = Some(request),
                    !.response = Some(Response(status, None)),
                    !.before = Some(watches)]

\* a handler is about to await refresh_watch_ids(watch_ids)
Calling(request, watch_ids) ==
    [IdleRun EXCEPT !.pc = "call", !.request = Some(request),
                    !.watch_ids = Some(watch_ids),
                    !.before = Some(watches)]

\* the dependency require_manage_auth of a handler
Gate(request) == require_manage_auth(env.PRIVATE_PAGE_PASSWORD_HASH, request.auth)

\* the id SQLite gives the next row: one more than the largest in use
NextWatchId ==
    LET used == {id \in WatchIds : watches[id] # None}
    IN  IF used = { } THEN 1 ELSE (CHOOSE id \in used : \A other \in used : other <= id) + 1

\* crud.get_loblaws_watch_by_url
get_loblaws_watch_by_url(url) ==
    {id \in WatchIds : watches[id] # None /\ watches[id][1].url = url}

\* crud.update_loblaws_watch: the fields the body set are assigned
update_loblaws_watch(watch, payload) ==
    [f \in DOMAIN watch |-> IF f \in DOMAIN payload THEN payload[f] ELSE watch[f]]

\* fault: the row is inserted without looking for a watch on the URL
create_watch_unchecked(r, auth, payload, budget) ==
    LET extracted == extract_product_code(payload.url)
        request == [endpoint |-> "create_watch", auth |-> auth, payload |-> payload,
                    existing |-> { }]
    IN  /\ runs[r].pc = "idle"
        /\ (Gate(request) = None /\ extracted.raised = None) =>
              (fetches < budget /\ NextWatchId \in WatchIds)
        /\ IF Gate(request) # None
           THEN /\ runs' = [runs EXCEPT ![r] = Answered(request, Gate(request)[1])]
                /\ UNCHANGED <<watches, fetches>>
           ELSE IF extracted.raised # None
           THEN /\ runs' = [runs EXCEPT ![r] = Answered(request, 500)]
                /\ UNCHANGED <<watches, fetches>>
           ELSE /\ watches' = [watches EXCEPT ![NextWatchId] =
                      Some([NewWatch(NextWatchId, Str(payload.url),
                                     Str(extracted.code[1]), payload.label)
                            EXCEPT !.store_id = payload.store_id])]
                /\ runs' = [runs EXCEPT ![r] = Calling(request, {NextWatchId})]
                /\ fetches' = fetches + 1
        /\ UNCHANGED <<lastApplied, clock, mindVars, linkVars, sysVars>>

\* POST /loblaws/watches.  The handler is a coroutine: from the lookup to the
\* commit of the insert it does not await, so no other request comes between
create_watch(r, auth, payload, budget) ==
    LET extracted == extract_product_code(payload.url)
        existing == get_loblaws_watch_by_url(Str(payload.url))
        request == [endpoint |-> "create_watch", auth |-> auth, payload |-> payload,
                    existing |-> existing]
    IN  /\ runs[r].pc = "idle"
        /\ (Gate(request) = None /\ extracted.raised = None) => fetches < budget
        /\ (Gate(request) = None /\ extracted.raised = None /\ existing = { }) =>
              NextWatchId \in WatchIds
        /\ IF Gate(request) # None
           THEN /\ runs' = [runs EXCEPT ![r] = Answered(request, Gate(request)[1])]
                /\ UNCHANGED <<watches, fetches>>
           ELSE IF extracted.raised # None
           THEN /\ runs' = [runs EXCEPT ![r] = Answered(request, 500)]
                /\ UNCHANGED <<watches, fetches>>
           ELSE IF existing # { }
           THEN /\ runs' = [runs EXCEPT ![r] =
                               Calling(request, {CHOOSE id \in existing : TRUE})]
                /\ fetches' = fetches + 1
                /\ UNCHANGED watches
           ELSE /\ watches' = [watches EXCEPT ![NextWatchId] =
                      Some([NewWatch(NextWatchId, Str(payload.url),
                                     Str(extracted.code[1]), payload.label)
                            EXCEPT !.store_id = payload.store_id])]
                /\ runs' = [runs EXCEPT ![r] = Calling(request, {NextWatchId})]
                /\ fetches' = fetches + 1
        /\ UNCHANGED <<lastApplied, clock, mindVars, linkVars, sysVars>>

\* PATCH /loblaws/watches/{watch_id}
update_watch(r, auth, watch_id, payload, budget) ==
    LET request == [endpoint |-> "update_watch", auth |-> auth, watch_id |-> watch_id,
                    payload |-> payload]
    IN  /\ runs[r].pc = "idle"
        /\ (Gate(request) = None /\ watch_id \in WatchIds /\ watches[watch_id] # None) =>
              fetches < budget
        /\ IF Gate(request) # None
           THEN /\ runs' = [runs EXCEPT ![r] = Answered(request, Gate(request)[1])]
                /\ UNCHANGED <<watches, fetches>>
           ELSE IF watch_id \notin WatchIds \/ watches[watch_id] = None
           THEN /\ runs' = [runs EXCEPT ![r] = Answered(request, 404)]
                /\ UNCHANGED <<watches, fetches>>
           ELSE /\ watches' = [watches EXCEPT ![watch_id] =
                      Some(update_loblaws_watch(watches[watch_id][1], payload))]
                /\ runs' = [runs EXCEPT ![r] = Calling(request, {watch_id})]
                /\ fetches' = fetches + 1
        /\ UNCHANGED <<lastApplied, clock, mindVars, linkVars, sysVars>>

\* fault: DELETE is left without the gate
delete_watch_ungated(r, auth, watch_id) ==
    LET request == [endpoint |-> "delete_watch", auth |-> auth, watch_id |-> watch_id]
    IN  /\ runs[r].pc = "idle"
        /\ IF watch_id \notin WatchIds \/ watches[watch_id] = None
           THEN /\ runs' = [runs EXCEPT ![r] = Answered(request, 404)]
                /\ UNCHANGED watches
           ELSE /\ watches' = [watches EXCEPT ![watch_id] = None]
                /\ runs' = [runs EXCEPT ![r] = Answered(request, 204)]
        /\ UNCHANGED <<lastApplied, clock, fetches, mindVars, linkVars, sysVars>>

\* DELETE /loblaws/watches/{watch_id}
delete_watch(r, auth, watch_id) ==
    LET request == [endpoint |-> "delete_watch", auth |-> auth, watch_id |-> watch_id]
    IN  /\ runs[r].pc = "idle"
        /\ IF Gate(request) # None
           THEN /\ runs' = [runs EXCEPT ![r] = Answered(request, Gate(request)[1])]
                /\ UNCHANGED watches
           ELSE IF watch_id \notin WatchIds \/ watches[watch_id] = None
           THEN /\ runs' = [runs EXCEPT ![r] = Answered(request, 404)]
                /\ UNCHANGED watches
           ELSE /\ watches' = [watches EXCEPT ![watch_id] = None]
                /\ runs' = [runs EXCEPT ![r] = Answered(request, 204)]
        /\ UNCHANGED <<lastApplied, clock, fetches, mindVars, linkVars, sysVars>>

\* POST /loblaws/watches/{watch_id}/refresh
refresh_watch_endpoint(r, auth, watch_id, budget) ==
    LET request == [endpoint |-> "refresh_watch_endpoint", auth |-> auth,
                    watch_id |-> watch_id]
    IN  /\ runs[r].pc = "idle"
        /\ Gate(request) = None => fetches < budget
        /\ IF Gate(request) # None
           THEN /\ runs' = [runs EXCEPT ![r] = Answered(request, Gate(request)[1])]
                /\ UNCHANGED fetches
           ELSE /\ runs' = [runs EXCEPT ![r] = Calling(request, {watch_id})]
                /\ fetches' = fetches + 1
        /\ UNCHANGED <<watches, lastApplied, clock, mindVars, linkVars, sysVars>>

\* POST /loblaws/watches/refresh
refresh_all_endpoint(r, auth, budget) ==
    LET request == [endpoint |-> "refresh_all_endpoint", auth |-> auth]
        rows == Len(_load_targets({ }))
    IN  /\ runs[r].pc = "idle"
        /\ Gate(request) = None => fetches + rows <= budget
        /\ IF Gate(request) # None
           THEN /\ runs' = [runs EXCEPT ![r] = Answered(request, Gate(request)[1])]
                /\ UNCHANGED fetches
           ELSE /\ runs' = [runs EXCEPT ![r] = Calling(request, { })]
                /\ fetches' = fetches + rows
        /\ UNCHANGED <<watches, lastApplied, clock, mindVars, linkVars, sysVars>>

\* the handler's await refresh_watch_ids(...) begins: the targets are loaded;
\* without targets the refresh returns [] at once
CallRefresh(r) ==
    /\ runs[r].pc = "call"
    /\ LET targets == _load_targets(runs[r].watch_ids[1])
       IN  runs' = [runs EXCEPT ![r] =
                      IF targets = << >> THEN [@ EXCEPT !.pc = "done"]
                      ELSE [@ EXCEPT !.pc = "fetch", !.targets = targets]]
    /\ UNCHANGED <<watches, lastApplied, clock, fetches, mindVars, linkVars, sysVars>>

\* the response leaves
Respond(r) ==
    /\ runs[r].pc = "respond"
    /\ runs' = [runs EXCEPT ![r] = IdleRun]
    /\ UNCHANGED <<watches, lastApplied, clock, fetches, mindVars, linkVars, sysVars>>

(***************************************************************************)
(* _select_primary_offer as _apply_snapshots calls it, on its own.         *)
(***************************************************************************)
\* the offer lists of the model: up to MaxOffers offers, with and without a
\* deal badge, in every order
OfferLists ==
    UNION {[1 .. n -> {OfferPlain, OfferPlainSubCent, OfferSale, OfferSale2}] :
             n \in 0 .. MaxOffers}

\* loblaws.py:235-240 and 280: the offer selected from the payload and the
\* deal badge the notification policy tests
SelectPrimaryOffer ==
    /\ call.fn = "_select_primary_offer"
    /\ call.result = None
    /\ LET payload == Product(call.offers)
       IN  call' = [call EXCEPT !.result =
                      Some([offer |-> _select_primary_offer(payload),
                            deal_badge |-> Get(Get(_select_primary_offer(payload),
                                                   "badges"), "dealBadge"),
                            deal_active |-> Extracted(payload).deal_active])]
    /\ UNCHANGED <<watchVars, mindVars, linkVars, env, sched, health>>

(***************************************************************************)
(* crud.list_links: GET /links.                                            *)
(***************************************************************************)
ListedIds == 1 .. NumListed

\* a row of the links table with the columns the listing looks at
ListedLink(id, click_count, last_clicked_at, order_index, is_active) ==
    [NewLink(id, Url("https://a.example/" \o ToString(id), FALSE), "Example", "tools")
        EXCEPT !.click_count = click_count, !.last_clicked_at = last_clicked_at,
               !.order_index = order_index, !.is_active = is_active]

\* the clicks a row of the model has had: how many, and the last one
Clicked == {<<5, None>>, <<5, Some(1)>>, <<10, Some(1)>>, <<10, Some(2)>>}

\* the tables a listing is checked on
ListedTables == [ListedIds -> Clicked \X {0, 1} \X BOOLEAN]

\* the place of a timestamp column in SQLite's order: NULL is before every value
Stamp(value) == IF value = None THEN 0 ELSE value[1]

\* fault: the recency of the last click is left out of the order
ByClicksOnly(a, b) ==
    \/ a.click_count > b.click_count
    \/ /\ a.click_count = b.click_count
       /\ \/ a.order_index < b.order_index
          \/ a.order_index = b.order_index /\ a.id < b.id

\* order_by(click_count.desc(), last_clicked_at.desc(), order_index, id):
\* row a comes before row b
ByClicks(a, b) ==
    \/ a.click_count > b.click_count
    \/ /\ a.click_count = b.click_count
       /\ \/ Stamp(a.last_clicked_at) > Stamp(b.last_clicked_at)
          \/ /\ Stamp(a.last_clicked_at) = Stamp(b.last_clicked_at)
             /\ \/ a.order_index < b.order_index
                \/ a.order_index = b.order_index /\ a.id < b.id

\* order_by(order_index, id)
ByOrder(a, b) ==
    \/ a.order_index < b.order_index
    \/ a.order_index = b.order_index /\ a.id < b.id

\* the rows of a SELECT in the order of its ORDER BY
Ordered(rows, Before(_, _)) ==
    [i \in 1 .. Cardinality(rows) |->
        CHOOSE x \in rows : Cardinality({y \in rows : Before(y, x)}) = i - 1]

\* crud.list_links on a table
list_links(table, include_inactive, ordering, limit) ==
    LET rows == {table[id][1] : id \in {i \in DOMAIN table : table[i] # None}}
        selected == IF include_inactive THEN rows ELSE {x \in rows : x.is_active}
        sorted == IF ordering = "clicks" THEN Ordered(selected, ByClicks)
                  ELSE Ordered(selected, ByOrder)
    IN  IF limit # None /\ limit[1] < Len(sorted) THEN SubSeq(sorted, 1, limit[1])
        ELSE sorted

\* GET /links?include_inactive=..&ordering=..&limit=..
ListLinks(include_inactive, ordering, limit) ==
    /\ call = NoCall
    /\ call' = [fn |-> "list_links", include_inactive |-> include_inactive,
                ordering |-> ordering, limit |-> limit,
                result |-> list_links(links, include_inactive, ordering, limit)]
    /\ UNCHANGED <<watchVars, mindVars, linkVars, env, sched, health>>

(***************************************************************************)
(* app/scheduler.py: run_link_health_check.                                *)
(***************************************************************************)
\* what a HEAD of a link comes to: a response with its status code, or an
\* httpx.HTTPError: a timeout (the server does not respond) or a broken
\* exchange
ProbeOutcomes ==
    {[kind |-> "response", status_code |-> code] : code \in {200, 404, 503}}
    \cup {[kind |-> "HTTPError", error |-> error] :
             error \in {"ReadTimeout", "RemoteProtocolError"}}

\* the status the loop body of run_link_health_check gives a link
LinkStatus(outcome) ==
    IF outcome.kind = "HTTPError" THEN "error"
    ELSE IF outcome.status_code < 400 THEN "up"
    ELSE IF outcome.status_code < 500 THEN "degraded"
    ELSE "down"

\* `start` is the table as the run found it, `probes` what each HEAD came to
IdleCheck == [pc |-> "idle", targets |-> << >>, updates |-> << >>, probes |-> << >>,
              start |-> None, before |-> None]

\* _fetch_active_links: (id, url) of the active links; no links: return
CheckStart ==
    /\ health.pc = "idle"
    /\ LET active == list_links(links, FALSE, "order", None)
           targets == [i \in 1 .. Len(active) |-> [id |-> active[i].id, url |-> active[i].url]]
       IN  health' = IF targets = << >>
                     THEN [IdleCheck EXCEPT !.pc = "done", !.start = Some(links),
                                            !.before = Some(links)]
                     ELSE [IdleCheck EXCEPT !.pc = "probe", !.targets = targets,
                                            !.start = Some(links)]
    /\ UNCHANGED <<watchVars, mindVars, linkVars, env, call, sched>>

\* client.head(url) of the next link returns or raises: its status is noted
Probe(outcome) ==
    /\ health.pc = "probe"
    /\ Len(health.updates) < Len(health.targets)
    /\ LET target == health.targets[Len(health.updates) + 1]
       IN  health' = [health EXCEPT
                        !.updates = Append(@, <<target.id, LinkStatus(outcome)>>),
                        !.probes = Append(@, [id |-> target.id, outcome |-> outcome])]
    /\ UNCHANGED <<watchVars, mindVars, linkVars, env, call, sched>>

\* Link.mark_checked
mark_checked(link, status, now) ==
    [link EXCEPT !.status = status, !.last_checked_at = Some(now)]

\* crud.bulk_update_status: the links still there are marked, one commit
RECURSIVE bulk_update_status(_, _, _)
bulk_update_status(table, updates, now) ==
    IF updates = << >> THEN table
    ELSE LET link_id == Head(updates)[1]
             status == Head(updates)[2]
         IN  bulk_update_status(
                 IF table[link_id] = None THEN table
                 ELSE [table EXCEPT ![link_id] = Some(mark_checked(@[1], status, now))],
                 Tail(updates), now)

\* _persist_status(updates)
Persist ==
    /\ health.pc = "probe"
    /\ Len(health.updates) = Len(health.targets)
    /\ links' = bulk_update_status(links, health.updates, clock)
    /\ clock' = clock + 1
    /\ health' = [health EXCEPT !.pc = "done", !.before = Some(links)]
    /\ UNCHANGED <<watches, lastApplied, runs, fetches, mindVars, clicks, env, call, sched>>

\* the run returns; the next one may start
CheckReturn ==
    /\ health.pc = "done"
    /\ clock <= MaxChecks
    /\ health' = IdleCheck
    /\ UNCHANGED <<watchVars, mindVars, linkVars, env, call, sched>>

\* PUT /links/{link_id} with is_active: crud.update_link
SetActive(id, is_active) ==
    /\ links[id] # None
    /\ links[id][1].is_active # is_active
    /\ links' = [links EXCEPT ![id] = Some([@[1] EXCEPT !.is_active = is_active])]
    /\ UNCHANGED <<clicks, watchVars, mindVars, sysVars>>

(***************************************************************************)
(* app/scheduler.py and the lifespan of app/main.py.  Both jobs are        *)
(* interval jobs added with max_instances=1 and coalesce=True; the         *)
(* scheduler counts the instances it started itself.  A run time that has  *)
(* come due waits until the scheduler next processes its jobs; a run it    *)
(* submits too late is discarded as a misfire (no misfire_grace_time is    *)
(* passed, the scheduler's default applies).                               *)
(***************************************************************************)
Jobs == {"link_health_check", "loblaws_refresh"}

\* a job of the scheduler: `due` run times not yet processed, `instances`
\* the scheduler counts as running, `pending` run times the running instance
\* has still to execute, `executing` calls of the job function under way.
\* `wake` is the record of the last time the scheduler processed the job:
\* how many run times were due, whether the submission was skipped, and what
\* became of the instance it submitted.
IdleJob == [due |-> 0, instances |-> 0, pending |-> 0, executing |-> 0, wake |-> None]

\* before the lifespan: no scheduler running, no task
IdleScheduler == [started |-> FALSE, direct |-> 0, jobs |-> [j \in Jobs |-> IdleJob]]

\* lifespan: start_scheduler(), then asyncio.create_task(run_link_health_check())
Lifespan ==
    /\ ~sched.started
    /\ sched' = [sched EXCEPT !.started = TRUE, !.direct = @ + 1]
    /\ UNCHANGED <<watchVars, mindVars, linkVars, env, call, health>>

\* the health check the lifespan launched ends
DirectDone ==
    /\ sched.direct > 0
    /\ sched' = [sched EXCEPT !.direct = @ - 1]
    /\ UNCHANGED <<watchVars, mindVars, linkVars, env, call, health>>

\* an interval of job j elapses: one more run time is due
Tick(j) ==
    /\ sched.started
    /\ sched.jobs[j].due < MaxMissed
    /\ sched' = [sched EXCEPT !.jobs[j].due = @ + 1]
    /\ UNCHANGED <<watchVars, mindVars, linkVars, env, call, health>>

\* fault: coalesce is off, every due run time is submitted
WakeAll(j) ==
    LET job == sched.jobs[j]
    IN  /\ sched.started
        /\ job.due > 0
        /\ sched' = [sched EXCEPT !.jobs[j] =
              IF job.instances >= MaxInstances
              THEN [job EXCEPT !.due = 0,
                               !.wake = Some([missed |-> job.due, caught |-> 0,
                                              skipped |-> TRUE, late |-> FALSE,
                                              over |-> TRUE])]
              ELSE [job EXCEPT !.due = 0, !.instances = @ + 1, !.pending = job.due,
                               !.wake = Some([missed |-> job.due, caught |-> 0,
                                              skipped |-> FALSE, late |-> FALSE,
                                              over |-> FALSE])]]
        /\ UNCHANGED <<watchVars, mindVars, linkVars, env, call, health>>

\* the scheduler processes job j: the due run times are coalesced into one,
\* which is submitted unless max_instances instances are running
Wake(j) ==
    LET job == sched.jobs[j]
    IN  /\ sched.started
        /\ job.due > 0
        /\ sched' = [sched EXCEPT !.jobs[j] =
              IF job.instances >= MaxInstances
              THEN [job EXCEPT !.due = 0,
                               !.wake = Some([missed |-> job.due, caught |-> 0,
                                              skipped |-> TRUE, late |-> FALSE,
                                              over |-> TRUE])]
              ELSE [job EXCEPT !.due = 0, !.instances = @ + 1, !.pending = 1,
                               !.wake = Some([missed |-> job.due, caught |-> 0,
                                              skipped |-> FALSE, late |-> FALSE,
                                              over |-> FALSE])]]
        /\ UNCHANGED <<watchVars, mindVars, linkVars, env, call, health>>

\* the record of the last processing, updated by the instance it submitted
Noted(job, change) ==
    IF job.wake[1].skipped THEN job.wake
    ELSE Some([job.wake[1] EXCEPT !.caught = @ + change.caught,
                                  !.late = @ \/ change.late,
                                  !.over = change.over])

\* the submitted instance comes to a run time: it calls the job function,
\* or discards the run time if it is later than the grace time
Execute(j, late) ==
    LET job == sched.jobs[j]
        last == job.pending = 1
    IN  /\ job.pending > 0
        /\ job.executing = 0
        /\ sched' = [sched EXCEPT !.jobs[j] =
              IF late
              THEN [job EXCEPT !.pending = @ - 1,
                               !.instances = IF last THEN @ - 1 ELSE @,
                               !.wake = Noted(job, [caught |-> 0, late |-> TRUE,
                                                    over |-> last])]
              ELSE [job EXCEPT !.pending = @ - 1, !.executing = @ + 1,
                               !.wake = Noted(job, [caught |-> 1, late |-> FALSE,
                                                    over |-> FALSE])]]
        /\ UNCHANGED <<watchVars, mindVars, linkVars, env, call, health>>

\* the job function returns
Finish(j) ==
    LET job == sched.jobs[j]
        last == job.pending = 0
    IN  /\ job.executing > 0
        /\ sched' = [sched EXCEPT !.jobs[j] =
              [job EXCEPT !.executing = @ - 1,
                          !.instances = IF last THEN @ - 1 ELSE @,
                          !.wake = Noted(job, [caught |-> 0, late |-> FALSE,
                                               over |-> last])]]
        /\ UNCHANGED <<watchVars, mindVars, linkVars, env, call, health>>

(***************************************************************************)
(* Initial state and specifications.                                       *)
(***************************************************************************)
\* the environments the process may be started in: the notification sink
\* configured or not; no password hash
Environments ==
    {[LOBLAWS_NOTIFY_ENDPOINT |-> endpoint, PRIVATE_PAGE_PASSWORD_HASH |-> None] :
        endpoint \in {None, Some("https://ntfy.example/board")}}

\* the store as the model starts with it: every watch present and never
\* refreshed, no mind-map document, no link, nothing in progress
InitStore ==
    /\ watches = [id \in WatchIds |-> Some(InitialWatch(id))]
    /\ lastApplied = [id \in WatchIds |-> None]
    /\ runs = [r \in RunIds |-> IdleRun]
    /\ clock = 1
    /\ fetches = 0
    /\ docs = [id \in DocIds |-> None]
    /\ mreqs = [c \in MindClients |-> IdleRequest]
    /\ links = [id \in LinkIds |-> None]
    /\ clicks = [k \in Clickers |-> IdleClick]
    /\ sched = IdleScheduler
    /\ health = IdleCheck

Init ==
    /\ env \in Environments
    /\ call = NoCall
    /\ InitStore

\* refreshes one after the other: the interval job alone
Next == Refresh(1, MaxFetches)

Spec == Init /\ [][Next]_vars

\* refreshes that overlap: the interval job and a refresh endpoint
NextOverlap == \E r \in RunIds : Refresh(r, MaxOverlapFetches)

SpecOverlap == Init /\ [][NextOverlap]_vars

\* mind-map requests one after the other
NextMind ==
    \/ \E id \in DocIds, title \in Titles, data \in Datas : CreateDoc(id, title, data)
    \/ UpdateDoc(1)

SpecMind == Init /\ [][NextMind]_vars

\* the interval job, against an upstream whose response shape has moved
NextShape ==
    \/ \E watch_ids \in WatchIdArgs : LoadTargets(1, watch_ids, MaxShapeFetches)
    \/ FetchStart(1)
    \/ \E payload \in ShapePayloads : FetchOk(1, Some(payload))
    \/ FetchFail(1)
    \/ Sleep(1)
    \/ BeginApply(1)
    \/ ApplySnapshot(1)
    \/ Commit(1)
    \/ Return(1)

SpecShape == Init /\ [][NextShape]_vars

\* _select_primary_offer on its own, on every offer list of the model
InitOffer ==
    /\ env \in Environments
    /\ call \in {[fn |-> "_select_primary_offer", offers |-> offers, result |-> None] :
                    offers \in OfferLists}
    /\ InitStore

NextOffer == SelectPrimaryOffer

SpecOffer == InitOffer /\ [][NextOffer]_vars

\* mind-map requests in flight together, one per caller
NextMindOverlap ==
    \/ \E id \in DocIds, data \in Datas : CreateDoc(id, "Plan", data)
    \/ \E c \in MindClients, doc_id \in DocIds, payload \in OverlapUpdates :
          UpdateDocRead(c, doc_id, payload)
    \/ \E c \in MindClients : UpdateDocWrite(c)
    \/ \E c \in MindClients : UpdateDocReturn(c)

SpecMindOverlap == Init /\ [][NextMindOverlap]_vars

\* register_click requests in flight together, one per caller
NextClick ==
    \/ \E url \in Urls : CreateLink(url, "Example", "tools")
    \/ \E k \in Clickers : RegisterClick(k)

SpecClick == Init /\ [][NextClick]_vars

\* register_click requests one after the other
NextClickSeq ==
    \/ clicks[1].pc = "idle" /\ \E url \in Urls : CreateLink(url, "Example", "tools")
    \/ RegisterClick(1)
    \/ ClickReturn(1)

SpecClickSeq == Init /\ [][NextClickSeq]_vars

\* the gate on its own, under every configuration of the password hash
InitAuth ==
    /\ env \in AuthEnvironments
    /\ call = NoCall
    /\ InitStore

NextAuth == \E request \in AuthRequests : Authenticate(request)

SpecAuth == InitAuth /\ [][NextAuth]_vars

\* extract_product_code on its own, on every URL of the model
InitExtract ==
    /\ env \in Environments
    /\ call \in {[fn |-> "extract_product_code", url |-> url, result |-> None] :
                    url \in ProductUrls}
    /\ InitStore

NextExtract == ExtractProductCode

SpecExtract == InitExtract /\ [][NextExtract]_vars

\* the interval job, and a caller who edits watches while it runs
NextEdit ==
    \/ Refresh(1, MaxEditFetches)
    \/ \E watch_id \in 1 .. NumWatches + 1, payload \in WatchUpdates :
          update_watch(2, AuthRequest(None, None, None), watch_id, payload, MaxEditFetches)
    \/ CallRefresh(2)
    \/ RefreshSteps(2)
    \/ Respond(2)

SpecEdit == Init /\ [][NextEdit]_vars

\* the password hash unset or set; one watch, and room for more
ApiEnvironments ==
    {[LOBLAWS_NOTIFY_ENDPOINT |-> Some("https://ntfy.example/board"),
      PRIVATE_PAGE_PASSWORD_HASH |-> expected_hash] :
        expected_hash \in {None, Some(SecretHash)}}

InitApi ==
    /\ env \in ApiEnvironments
    /\ call = NoCall
    /\ watches = [id \in WatchIds |-> IF id = 1 THEN Some(InitialWatch(id)) ELSE None]
    /\ lastApplied = [id \in WatchIds |-> None]
    /\ runs = [r \in RunIds |-> IdleRun]
    /\ clock = 1
    /\ fetches = 0
    /\ docs = [id \in DocIds |-> None]
    /\ mreqs = [c \in MindClients |-> IdleRequest]
    /\ links = [id \in LinkIds |-> None]
    /\ clicks = [k \in Clickers |-> IdleClick]
    /\ sched = IdleScheduler
    /\ health = IdleCheck

\* one caller of the mutating endpoints, one request at a time
NextApi ==
    \/ \E auth \in ApiAuths, payload \in WatchCreates :
          create_watch(1, auth, payload, MaxApiFetches)
    \/ \E auth \in ApiAuths, watch_id \in 1 .. NumWatches + 1, payload \in WatchUpdates :
          update_watch(1, auth, watch_id, payload, MaxApiFetches)
    \/ \E auth \in ApiAuths, watch_id \in 1 .. NumWatches + 1 :
          delete_watch(1, auth, watch_id)
    \/ \E auth \in ApiAuths, watch_id \in 1 .. NumWatches + 1 :
          refresh_watch_endpoint(1, auth, watch_id, MaxApiFetches)
    \/ \E auth \in ApiAuths : refresh_all_endpoint(1, auth, MaxApiFetches)
    \/ CallRefresh(1)
    \/ RefreshSteps(1)
    \/ Respond(1)

SpecApi == InitApi /\ [][NextApi]_vars

\* list_links on its own, on every table of the model
InitList ==
    /\ env \in {e \in Environments : e.LOBLAWS_NOTIFY_ENDPOINT = None}
    /\ call = NoCall
    /\ watches = [id \in WatchIds |-> Some(InitialWatch(id))]
    /\ lastApplied = [id \in WatchIds |-> None]
    /\ runs = [r \in RunIds |-> IdleRun]
    /\ clock = 1
    /\ fetches = 0
    /\ docs = [id \in DocIds |-> None]
    /\ mreqs = [c \in MindClients |-> IdleRequest]
    /\ links \in {[id \in ListedIds |->
                      Some(ListedLink(id, t[id][1][1], t[id][1][2], t[id][2], t[id][3]))] :
                   t \in ListedTables}
    /\ clicks = [k \in Clickers |-> IdleClick]
    /\ sched = IdleScheduler
    /\ health = IdleCheck

NextList ==
    \E include_inactive \in BOOLEAN, ordering \in {"order", "clicks"},
       limit \in {None, Some(2)} :
        ListLinks(include_inactive, ordering, limit)

SpecList == InitList /\ [][NextList]_vars

\* the link health check, run again and again, while links are switched
\* on and off
InitHealth ==
    /\ env \in {e \in Environments : e.LOBLAWS_NOTIFY_ENDPOINT = None}
    /\ call = NoCall
    /\ watches = [id \in WatchIds |-> Some(InitialWatch(id))]
    /\ lastApplied = [id \in WatchIds |-> None]
    /\ runs = [r \in RunIds |-> IdleRun]
    /\ clock = 1
    /\ fetches = 0
    /\ docs = [id \in DocIds |-> None]
    /\ mreqs = [c \in MindClients |-> IdleRequest]
    /\ links \in {[id \in LinkIds |-> Some(ListedLink(id, 5, None, 0, active[id]))] :
                   active \in [LinkIds -> BOOLEAN]}
    /\ clicks = [k \in Clickers |-> IdleClick]
    /\ sched = IdleScheduler
    /\ health = IdleCheck

NextHealth ==
    \/ CheckStart
    \/ \E outcome \in ProbeOutcomes : Probe(outcome)
    \/ Persist
    \/ CheckReturn
    \/ \E id \in LinkIds, is_active \in BOOLEAN : SetActive(id, is_active)

SpecHealth == InitHealth /\ [][NextHealth]_vars

\* create_watch requests in flight together, one per caller; no password
\* hash is configured
InitCreate ==
    /\ InitApi
    /\ env.PRIVATE_PAGE_PASSWORD_HASH = None

NextCreate ==
    \/ \E r \in RunIds, payload \in {body \in WatchCreates : body.label = None} :
          create_watch(r, AuthRequest(None, None, None), payload, MaxCreateFetches)
    \/ \E r \in RunIds : CallRefresh(r)
    \/ \E r \in RunIds : FetchStart(r)
    \/ \E r \in RunIds : FetchOk(r, Some(Product(<<OfferSale>>)))
    \/ \E r \in RunIds : FetchFail(r)
    \/ \E r \in RunIds : Sleep(r)
    \/ \E r \in RunIds : BeginApply(r)
    \/ \E r \in RunIds : ApplySnapshot(r)
    \/ \E r \in RunIds : Commit(r)
    \/ \E r \in RunIds : Return(r)
    \/ \E r \in RunIds : Respond(r)

SpecCreate == InitCreate /\ [][NextCreate]_vars

\* refreshes, of every watch by the interval job and of one by the
\* refresh-one endpoint, while another caller deletes watches
NextDelete ==
    \/ LoadTargets(1, { }, MaxDeleteFetches)
    \/ \E watch_id \in 1 .. NumWatches + 1 :
          refresh_watch_endpoint(1, AuthRequest(None, None, None), watch_id,
                                 MaxDeleteFetches)
    \/ CallRefresh(1)
    \/ FetchStart(1)
    \/ FetchOk(1, Some(Product(<<OfferSale>>)))
    \/ FetchFail(1)
    \/ Sleep(1)
    \/ BeginApply(1)
    \/ ApplySnapshot(1)
    \/ Commit(1)
    \/ Return(1)
    \/ Respond(1)
    \/ \E watch_id \in 1 .. NumWatches + 1 :
          delete_watch(2, AuthRequest(None, None, None), watch_id)
    \/ Respond(2)

SpecDelete == Init /\ [][NextDelete]_vars

\* the application from its lifespan on: the scheduler and its two jobs
NextSched ==
    \/ Lifespan
    \/ DirectDone
    \/ \E j \in Jobs : Tick(j)
    \/ \E j \in Jobs : Wake(j)
    \/ \E j \in Jobs, late \in BOOLEAN : Execute(j, late)
    \/ \E j \in Jobs : Finish(j)

SpecSched == Init /\ [][NextSched]_vars

(***************************************************************************)
(* Vocabulary of the properties.                                           *)
(***************************************************************************)
\* calls of send_notification a run made for a watch
SentTo(run, id) == Cardinality({i \in 1 .. Len(run.sent) : run.sent[i].watch_id = id})

\* the objects a run holds in its session
Entries(r) == {runs[r].session[i] : i \in 1 .. Len(runs[r].session)}

\* the row of a watch before the commit of a finished run, and now
Before(r, id) == runs[r].before[1][id][1]
After(id) == watches[id][1]

\* the loop of _apply_snapshots is over: every snapshot was processed
Processed(r) ==
    runs[r].pc \in {"apply", "done"} /\ runs[r].applied = Len(runs[r].snapshots)

\* the six values the signature is about, as a row caches them
SixValues(row) ==
    <<row.sale_type, row.sale_text, row.sale_expiry, row.current_price,
      row.regular_price, row.stock_status>>

\* the cached pricing and sale fields of a row
PricingFields(row) ==
    <<row.current_price, row.price_unit, row.regular_price, row.sale_text,
      row.sale_type, row.sale_badge_name, row.sale_expiry, row.stock_status>>

(***************************************************************************)
(* C1.  Idempotence of refresh: a refresh whose payload for a watch is     *)
(* the payload the previous successful refresh applied leaves              *)
(* last_signature, last_change_at and last_notified_at as they were and    *)
(* sends no notification for that watch; last_checked_at moves.            *)
(***************************************************************************)
C1_RefreshIdempotent ==
    \A r \in RunIds :
        runs[r].pc = "done" =>
            \A e \in Entries(r) :
                LET id == e.loaded.id
                IN  (e.payload # None /\ runs[r].beforeApplied[1][id] = e.payload) =>
                        /\ After(id).last_signature = Before(r, id).last_signature
                        /\ After(id).last_change_at = Before(r, id).last_change_at
                        /\ After(id).last_notified_at = Before(r, id).last_notified_at
                        /\ After(id).last_checked_at = runs[r].now
                        /\ SentTo(runs[r], id) = 0

\* a badge-bearing payload was applied a second time, after it had been notified
C1_Witness ==
    \E r \in RunIds :
        /\ runs[r].pc = "done"
        /\ \E e \in Entries(r) :
              /\ e.payload # None
              /\ runs[r].beforeApplied[1][e.loaded.id] = e.payload
              /\ Before(r, e.loaded.id).last_notified_at # None
              /\ After(e.loaded.id).last_checked_at # Before(r, e.loaded.id).last_checked_at

(***************************************************************************)
(* C2.  For each watch a batch processed with a fetched payload,           *)
(* send_notification is called once if the new signature differs from the *)
(* stored one and the selected offer carries a deal badge, and not at all  *)
(* otherwise.                                                              *)
(***************************************************************************)
C2_NotifyOncePerBadgedChange ==
    \A r \in RunIds :
        \A e \in Entries(r) :
            e.payload # None =>
                LET offer == _select_primary_offer(e.payload[1])
                    differs == Signature(Extracted(e.payload[1]))
                                  # StrOr(e.loaded.last_signature, Some(""))[1]
                    badge == offer # None /\ HasDealBadge(offer[1])
                IN  SentTo(runs[r], e.loaded.id) = IF differs /\ badge THEN 1 ELSE 0

\* one batch held a badged change (notified) and an unbadged change (not notified)
C2_Witness ==
    \E r \in RunIds :
        /\ Processed(r)
        /\ \E e1, e2 \in Entries(r) :
              /\ e1.payload # None /\ e2.payload # None
              /\ e1.new.last_change_at = runs[r].now
              /\ e2.new.last_change_at = runs[r].now
              /\ SentTo(runs[r], e1.loaded.id) = 1
              /\ SentTo(runs[r], e2.loaded.id) = 0

(***************************************************************************)
(* C3.  As claimed: between two successive successful refreshes of a       *)
(* watch the stored signature changes if and only if one of the six values *)
(* (sale type, sale text, sale expiry, current price, regular price, stock *)
(* status) changes.                                                        *)
(***************************************************************************)
C3_SignatureIffValues ==
    \A r \in RunIds :
        runs[r].pc = "done" =>
            \A e \in Entries(r) :
                LET id == e.loaded.id
                IN  (e.payload # None /\ Before(r, id).last_signature # None) =>
                        ((After(id).last_signature # Before(r, id).last_signature)
                            <=> (SixValues(After(id)) # SixValues(Before(r, id))))

(***************************************************************************)
(* C3, amended.  Between two successive successful refreshes of a watch    *)
(* the stored signature changes only if one of the six values changes.     *)
(***************************************************************************)
C3_SignatureOnlyIfValues ==
    \A r \in RunIds :
        runs[r].pc = "done" =>
            \A e \in Entries(r) :
                LET id == e.loaded.id
                IN  (e.payload # None /\ Before(r, id).last_signature # None
                        /\ After(id).last_signature # Before(r, id).last_signature) =>
                            SixValues(After(id)) # SixValues(Before(r, id))

\* a second successful refresh changed the stored signature
C3_Witness ==
    \E r \in RunIds :
        /\ runs[r].pc = "done"
        /\ \E e \in Entries(r) :
              /\ e.payload # None
              /\ Before(r, e.loaded.id).last_signature # None
              /\ After(e.loaded.id).last_signature # Before(r, e.loaded.id).last_signature

C5_EveryWriteBumps ==
    \A c \in MindClients :
        (mreqs[c].pc = "done" /\ mreqs[c].doc # None
            /\ mreqs[c].response[1].status = 200) =>
                docs[mreqs[c].doc[1].id][1].version = mreqs[c].doc[1].version + 1

(***************************************************************************)
(* C5, amended.  An update that is not refused raises the version by one   *)
(* if it is forced or supplies a title or data, whether or not the content *)
(* changes, and leaves the version alone if it is neither forced nor       *)
(* supplies a title or data.                                               *)
(***************************************************************************)
C5_SuppliedWriteBumps ==
    \A c \in MindClients :
        (mreqs[c].pc = "done" /\ mreqs[c].doc # None
            /\ mreqs[c].response[1].status = 200) =>
                LET payload == mreqs[c].payload[1]
                    loaded == mreqs[c].doc[1]
                    supplied == payload.force \/ payload.title # None \/ payload.data # None
                IN  docs[loaded.id][1].version =
                        IF supplied THEN loaded.version + 1 ELSE loaded.version

\* an unforced update wrote the title and data the document already had
C5_Witness ==
    \E c \in MindClients :
        /\ mreqs[c].pc = "done"
        /\ mreqs[c].doc # None
        /\ mreqs[c].response[1].status = 200
        /\ ~mreqs[c].payload[1].force
        /\ mreqs[c].payload[1].title = Some(mreqs[c].doc[1].title)
        /\ mreqs[c].payload[1].data # None
        /\ json_dumps(mreqs[c].payload[1].data[1]) = mreqs[c].doc[1].data_json
        /\ docs[mreqs[c].doc[1].id][1].version = mreqs[c].doc[1].version + 1

(***************************************************************************)
(* C6.  Once the register_click requests in flight have completed, the     *)
(* click_count of a link is the number of clicks recorded for it.          *)
(***************************************************************************)
C6_NoLostClick ==
    (\A k \in Clickers : clicks[k].pc \in {"idle", "done"}) =>
        \A id \in LinkIds :
            links[id] # None =>
                links[id][1].click_count =
                    Cardinality({k \in Clickers :
                                    /\ clicks[k].pc = "done"
                                    /\ clicks[k].status = Some(204)
                                    /\ clicks[k].link # None
                                    /\ clicks[k].link[1].id = id})

(***************************************************************************)
(* C7.  Two refresh runs that read the same stored signature of a watch    *)
(* and hold the same payload for it send at most one notification for it   *)
(* between them.                                                           *)
(***************************************************************************)
C7_OneNotificationPerChange ==
    \A r1, r2 \in RunIds :
        r1 # r2 =>
            \A e1 \in Entries(r1), e2 \in Entries(r2) :
                (/\ e1.loaded.id = e2.loaded.id
                 /\ e1.payload # None
                 /\ e1.payload = e2.payload
                 /\ e1.loaded.last_signature = e2.loaded.last_signature) =>
                    SentTo(runs[r1], e1.loaded.id) + SentTo(runs[r2], e2.loaded.id) <= 1

(***************************************************************************)
(* C8.  A batch in which a fetch raised still fetched every target, and    *)
(* after it every target whose row exists has last_checked_at at the batch *)
(* time and its id in the returned list, the fetched ones with their       *)
(* cached fields taken from their payloads.                                *)
(***************************************************************************)
C8_FailureDoesNotBlock ==
    \A r \in RunIds :
        (runs[r].pc = "done"
            /\ \E i \in 1 .. Len(runs[r].snapshots) : runs[r].snapshots[i].error # None) =>
                /\ Len(runs[r].snapshots) = Len(runs[r].targets)
                /\ \A i \in 1 .. Len(runs[r].targets) :
                      LET id == runs[r].targets[i].id
                          snapshot == runs[r].snapshots[i]
                      IN  /\ snapshot.watch_id = id
                          /\ watches[id] # None =>
                                /\ After(id).last_checked_at = runs[r].now
                                /\ \E j \in 1 .. Len(runs[r].updated_ids) :
                                      runs[r].updated_ids[j] = id
                                /\ SnapshotOk(snapshot) =>
                                      LET x == Extracted(snapshot.payload[1])
                                      IN  /\ After(id).current_price = x.current_price
                                          /\ After(id).sale_text = x.sale_text
                                          /\ After(id).stock_status = x.stock_status
                                          /\ After(id).last_signature = Some(Signature(x))

\* the first fetch of a batch raised and the second target was updated from its payload
C8_Witness ==
    \E r \in RunIds :
        /\ runs[r].pc = "done"
        /\ Len(runs[r].snapshots) = 2
        /\ runs[r].snapshots[1].error # None
        /\ SnapshotOk(runs[r].snapshots[2])
        /\ After(runs[r].targets[2].id).current_price # None
        /\ After(runs[r].targets[1].id).last_checked_at = runs[r].now

(***************************************************************************)
(* C9.  For a target whose fetch failed (an error, or no payload) the      *)
(* batch changes last_checked_at of the row and nothing else, and sends no *)
(* notification.                                                           *)
(***************************************************************************)
C9_FailedFetchFrame ==
    \A r \in RunIds :
        runs[r].pc = "done" =>
            \A e \in Entries(r) :
                LET id == e.loaded.id
                IN  e.payload = None =>
                        /\ After(id) = [Before(r, id) EXCEPT !.last_checked_at = runs[r].now]
                        /\ SentTo(runs[r], id) = 0

\* a watch with a cached sale went through a failed fetch
C9_Witness ==
    \E r \in RunIds :
        /\ runs[r].pc = "done"
        /\ \E e \in Entries(r) :
              /\ e.payload = None
              /\ Before(r, e.loaded.id).sale_text # None
              /\ After(e.loaded.id).sale_text # None
              /\ After(e.loaded.id).last_checked_at # Before(r, e.loaded.id).last_checked_at

(***************************************************************************)
(* C10.  As claimed: a fetched payload without offers leaves the cached    *)
(* pricing and sale fields of the watch as they were.                      *)
(***************************************************************************)
C10_NoOffersKeepsPricing ==
    \A r \in RunIds :
        runs[r].pc = "done" =>
            \A e \in Entries(r) :
                (e.payload # None /\ e.payload[1].offers = << >>) =>
                    PricingFields(After(e.loaded.id)) = PricingFields(Before(r, e.loaded.id))

(***************************************************************************)
(* C10, amended.  A fetched payload without offers sets last_checked_at,   *)
(* clears the cached pricing and sale fields (each becomes None), stores   *)
(* the signature of an offerless product, sets last_change_at if that      *)
(* signature differs from the stored one, and leaves last_notified_at,     *)
(* and the name, brand and image the payload does not carry, as they were. *)
(***************************************************************************)
C10_NoOffersClearsPricing ==
    \A r \in RunIds :
        runs[r].pc = "done" =>
            \A e \in Entries(r) :
                LET id == e.loaded.id
                    old == Before(r, id)
                IN  (e.payload # None /\ e.payload[1].offers = << >>) =>
                        /\ PricingFields(After(id)) =
                              <<None, None, None, None, None, None, None, None>>
                        /\ After(id).last_checked_at = runs[r].now
                        /\ After(id).last_signature = Some("NONE|||||")
                        /\ After(id).last_change_at =
                              IF old.last_signature = Some("NONE|||||")
                              THEN old.last_change_at ELSE runs[r].now
                        /\ After(id).last_notified_at = old.last_notified_at
                        /\ e.payload[1].name = None => After(id).name = old.name
                        /\ e.payload[1].brand = None => After(id).brand = old.brand
                        /\ e.payload[1].imageAssets = << >> =>
                              After(id).image_url = old.image_url
                        /\ SentTo(runs[r], id) = 0

\* a watch with a cached sale was refreshed from a payload without offers
C10_Witness ==
    \E r \in RunIds :
        /\ runs[r].pc = "done"
        /\ \E e \in Entries(r) :
              /\ e.payload # None
              /\ e.payload[1].offers = << >>
              /\ Before(r, e.loaded.id).sale_text # None
              /\ Before(r, e.loaded.id).current_price # None
              /\ After(e.loaded.id).current_price = None

(***************************************************************************)
(* C11.  As claimed: a refresh moves last_notified_at of a watch only if   *)
(* a notification for that watch was delivered to the sink in that         *)
(* refresh; it stays when nothing was to be notified, when no sink is      *)
(* configured and when the dispatch failed.                                *)
(***************************************************************************)
C11_NotifiedOnlyIfDelivered ==
    \A r \in RunIds :
        runs[r].pc = "done" =>
            \A e \in Entries(r) :
                LET id == e.loaded.id
                IN  After(id).last_notified_at # Before(r, id).last_notified_at =>
                        \E i \in 1 .. Len(runs[r].sent) :
                            /\ runs[r].sent[i].watch_id = id
                            /\ runs[r].sent[i].outcome = "delivered"

(***************************************************************************)
(* C12.  A refresh sets last_change_at of a watch to the batch time if     *)
(* and only if the signature it computed differs from the stored one (a    *)
(* watch never refreshed has the empty signature); otherwise, and after a  *)
(* failed fetch, last_change_at keeps its value.                           *)
(***************************************************************************)
C12_ChangeStampIffSignatureDiffers ==
    \A r \in RunIds :
        runs[r].pc = "done" =>
            \A e \in Entries(r) :
                LET id == e.loaded.id
                    old == Before(r, id)
                    stored == IF old.last_signature = None THEN "" ELSE old.last_signature[1]
                IN  /\ old.last_change_at # runs[r].now
                    /\ IF e.payload # None /\ After(id).last_signature # Some(stored)
                       THEN After(id).last_change_at = runs[r].now
                       ELSE After(id).last_change_at = old.last_change_at

\* a watch whose signature had changed before was refreshed with a payload
\* of another signature
C12_Witness ==
    \E r \in RunIds :
        /\ runs[r].pc = "done"
        /\ \E e \in Entries(r) :
              /\ e.payload # None
              /\ Before(r, e.loaded.id).last_change_at # None
              /\ After(e.loaded.id).last_signature # Before(r, e.loaded.id).last_signature
              /\ After(e.loaded.id).last_change_at = runs[r].now

(***************************************************************************)
(* C20.  Within one batch the fetches are strictly sequential: at most one *)
(* is in flight, the targets are fetched in the order they were loaded     *)
(* (ascending id), and a fetch starts only after the pause that follows    *)
(* the previous one is over: the short pause after a fetch that returned,  *)
(* the longer one after a fetch that raised.                               *)
(***************************************************************************)
C20_SequentialPacedFetches ==
    \A r \in RunIds :
        LET run == runs[r]
            done == Len(run.snapshots)
            delay(i) == IF run.snapshots[i].error = None
                        THEN PoliteDelayMs ELSE FailureDelayMs
        IN  /\ Cardinality(run.inflight) <= 1
            /\ \A i, j \in 1 .. Len(run.targets) :
                  i < j => run.targets[i].id < run.targets[j].id
            /\ \A i \in 1 .. done : run.snapshots[i].watch_id = run.targets[i].id
            /\ \A request \in run.inflight :
                  /\ done < Len(run.targets)
                  /\ request.watch_id = run.targets[done + 1].id
                  /\ run.pause = None
                  /\ Len(run.pauses) = done
            /\ \A i \in 1 .. Len(run.pauses) : i <= done /\ run.pauses[i] = delay(i)
            /\ run.pause # None =>
                  done > 0 /\ Len(run.pauses) = done - 1 /\ run.pause = Some(delay(done))
            /\ run.pc \in {"apply", "done"} => Len(run.pauses) = Len(run.targets)

\* the second target's fetch is in flight, after a fetch that raised and its pause
C20_Witness ==
    \E r \in RunIds :
        /\ Len(runs[r].targets) >= 2
        /\ runs[r].inflight # { }
        /\ runs[r].snapshots # << >>
        /\ runs[r].snapshots[1].error # None
        /\ runs[r].pauses = <<FailureDelayMs>>

(***************************************************************************)
(* C18.  As claimed: without a configured hash the gate accepts every      *)
(* request; with a hash H it accepts exactly the requests that present a   *)
(* token whose SHA-256 is H or that is a 64-hex-character value equal to H *)
(* ignoring case.                                                          *)
(***************************************************************************)
C18_GateAsClaimed ==
    call.fn = "require_manage_auth" =>
        LET H == env.PRIVATE_PAGE_PASSWORD_HASH
            token == Password(call.request)
            hex64(t) == /\ Len(t) = HashLen
                        /\ \A i \in 1 .. Len(t) : LowerChar(t[i]) \in HexDigits
        IN  IF ~TruthyChars(H) THEN call.raised = None
            ELSE call.raised = None <=>
                    /\ TruthyChars(token)
                    /\ \/ sha256_hexdigest(token[1]) = H[1]
                       \/ hex64(token[1]) /\ Lower(token[1]) = Lower(H[1])

(***************************************************************************)
(* C18, amended.  Without a configured hash (unset or empty) the gate      *)
(* accepts every request.  With a hash H it takes the first non-empty of   *)
(* the query token and the two headers and answers 401 if there is none;   *)
(* the token, stripped of surrounding blanks and lower-cased, is compared  *)
(* with H lower-cased if it is 64 hexadecimal characters, and otherwise    *)
(* the SHA-256 of the token as sent is; the gate accepts on equality and   *)
(* answers 401 otherwise.                                                  *)
(***************************************************************************)
C18_GateDecision ==
    call.fn = "require_manage_auth" =>
        LET H == env.PRIVATE_PAGE_PASSWORD_HASH
            token == Password(call.request)
            hex64(t) == /\ Len(t) = HashLen
                        /\ \A i \in 1 .. Len(t) : t[i] \in HexDigits
        IN  /\ call.raised \in {None, Some(401)}
            /\ IF ~TruthyChars(H) THEN call.raised = None
               ELSE call.raised = None <=>
                    /\ TruthyChars(token)
                    /\ IF hex64(Lower(Strip(token[1])))
                       THEN Lower(Strip(token[1])) = Lower(H[1])
                       ELSE sha256_hexdigest(token[1]) = Lower(H[1])

\* the digest with blanks around it was presented to a gate configured with
\* the digest, and was accepted
C18_Witness ==
    /\ call.fn = "require_manage_auth"
    /\ env.PRIVATE_PAGE_PASSWORD_HASH = Some(SecretHash)
    /\ call.request.token = Some(SecretHashPadded)
    /\ call.raised = None

(***************************************************************************)
(* C15.  As claimed: extract_product_code fails on a URL without "/p/"     *)
(* and otherwise returns the path segment that follows "/p/", up to the    *)
(* next "/", "?" or "#", as the URL spells it.                             *)
(***************************************************************************)
C15_CodeAsWritten ==
    (call.fn = "extract_product_code" /\ call.result # None) =>
        LET url == call.url
            result == call.result[1]
            marks == {i \in 1 .. Len(url) - 2 :
                        url[i] = "/" /\ url[i + 1] = "p" /\ url[i + 2] = "/"}
        IN  IF marks = { } THEN result.raised # None
            ELSE \E i \in marks :
                    /\ result.raised = None
                    /\ result.code = Some(SegmentFrom(url, i + 3))

(***************************************************************************)
(* C15, amended.  extract_product_code looks for the first "/p/" or "/P/"  *)
(* that is followed by a character other than "/", "?" and "#", and takes  *)
(* the characters from there up to the next "/", "?", "#" or the end.  It  *)
(* returns them stripped of surrounding blanks and in upper case; it       *)
(* raises when there is no such place or nothing is left after stripping.  *)
(***************************************************************************)
C15_CodeNormalised ==
    (call.fn = "extract_product_code" /\ call.result # None) =>
        LET url == call.url
            result == call.result[1]
            Segment(i, j) ==
                /\ i <= j
                /\ \A k \in i .. j : url[k] \notin SegmentStops
                /\ j < Len(url) => url[j + 1] \in SegmentStops
            Hit(i, j) ==
                /\ url[i] = "/" /\ url[i + 1] \in {"p", "P"} /\ url[i + 2] = "/"
                /\ Segment(i + 3, j)
            hits == {h \in (1 .. Len(url)) \X (1 .. Len(url)) :
                        h[1] + 3 <= Len(url) /\ Hit(h[1], h[2])}
        IN  IF hits = { } THEN result.raised # None /\ result.code = None
            ELSE LET h == CHOOSE x \in hits : \A y \in hits : x[1] <= y[1]
                     code == Strip(SubSeq(url, h[1] + 3, h[2]))
                 IN  IF code = << >> THEN result.raised # None /\ result.code = None
                     ELSE /\ result.raised = None
                          /\ result.code = Some(Upper(code))
                          /\ \A i \in 1 .. Len(code) :
                                code[i] = "a" => result.code[1][i] = "A"

\* a lower-case segment followed by a query came back in upper case
C15_Witness ==
    /\ call.fn = "extract_product_code"
    /\ call.url = <<"/", "p", "/", "a", "?">>
    /\ call.result = Some([raised |-> None, code |-> Some(<<"A">>)])

(***************************************************************************)
(* C13.  As claimed: what a refresh run fetches and what it puts in a      *)
(* notification are the values _load_targets captured before the first     *)
(* fetch (product code, store id, url, label), whatever edit of the watch  *)
(* is committed while the run is under way.                                *)
(***************************************************************************)
C13_TargetsIsolated ==
    \A r \in RunIds :
        LET run == runs[r]
            Target(id) == CHOOSE t \in {run.targets[i] : i \in 1 .. Len(run.targets)} :
                             t.id = id
        IN  /\ \A request \in run.inflight :
                  /\ request.product_code = Target(request.watch_id).product_code
                  /\ request.store_id = Target(request.watch_id).store_id
            /\ \A i \in 1 .. Len(run.sent), j \in 1 .. Len(run.session) :
                  LET sent == run.sent[i]
                      new == run.session[j].new
                      target == Target(sent.watch_id)
                  IN  new.id = sent.watch_id =>
                        /\ sent.link = target.url
                        /\ sent.title = StrOr(StrOr(target.label, new.name),
                                              Some(target.product_code))[1]

(***************************************************************************)
(* C14.  As claimed: an admitted POST /loblaws/watches whose URL carries   *)
(* no product code is answered with a client error (4xx), creates no watch *)
(* and causes no fetch.                                                    *)
(***************************************************************************)
C14_NoCodeIsClientError ==
    \A r \in RunIds :
        LET run == runs[r]
        IN  ( /\ run.request # None
              /\ run.request[1].endpoint = "create_watch"
              /\ Gate(run.request[1]) = None
              /\ run.request[1].payload.url = UrlNoProduct ) =>
                /\ run.pc = "respond"
                /\ run.response[1].status \in 400 .. 499
                /\ watches = run.before[1]
                /\ run.targets = << >>

(***************************************************************************)
(* C19.  With a password hash configured, a request to a mutating watch    *)
(* endpoint (create, update, delete, refresh one, refresh all) that does   *)
(* not carry a valid token is answered 401 and changes no watch row,       *)
(* causes no fetch and sends no notification.                              *)
(***************************************************************************)
C19_NoEffectWithoutToken ==
    \A r \in RunIds :
        LET run == runs[r]
            valid == {Some(RawSecret), Some(SecretHash)}
        IN  ( /\ run.request # None
              /\ env.PRIVATE_PAGE_PASSWORD_HASH = Some(SecretHash)
              /\ run.request[1].auth.token \notin valid ) =>
                /\ run.pc = "respond"
                /\ run.response = Some(Response(401, None))
                /\ watches = run.before[1]
                /\ run.watch_ids = None
                /\ run.targets = << >> /\ run.inflight = { } /\ run.snapshots = << >>
                /\ run.session = << >> /\ run.sent = << >>

\* a DELETE of an existing watch without a token was answered 401 where a
\* hash is configured, and the same caller had created a watch before
C19_Witness ==
    \E r \in RunIds :
        /\ runs[r].pc = "respond"
        /\ env.PRIVATE_PAGE_PASSWORD_HASH = Some(SecretHash)
        /\ runs[r].request[1].endpoint = "delete_watch"
        /\ runs[r].request[1].auth.token = None
        /\ runs[r].request[1].watch_id = NumWatches
        /\ watches[NumWatches] # None
        /\ runs[r].response[1].status = 401

(***************************************************************************)
(* C16.  As claimed: from the lifespan on, at most one run of the link     *)
(* health check and at most one run of the watch refresh job is executing  *)
(* at any time, the health check the lifespan launches included.           *)
(***************************************************************************)
C16_OneRunPerJob ==
    \A j \in Jobs :
        sched.jobs[j].executing
            + (IF j = "link_health_check" THEN sched.direct ELSE 0) <= 1

(***************************************************************************)
(* C17.  As claimed: when the scheduler comes to a job of which k >= 1     *)
(* run times are due, exactly one catch-up run of the job executes.        *)
(***************************************************************************)
C17_ExactlyOneCatchUp ==
    \A j \in Jobs :
        LET wake == sched.jobs[j].wake
        IN  (wake # None /\ wake[1].over) => wake[1].caught = 1

(***************************************************************************)
(* C17, amended.  When the scheduler comes to a job of which k >= 1 run    *)
(* times are due, they are coalesced: at most one catch-up run executes,   *)
(* never k, and none is queued.  The one run executes unless an instance   *)
(* of the job is still running (it is skipped) or the run is discarded as  *)
(* too late; then no catch-up run executes.                                *)
(***************************************************************************)
C17_AtMostOneCatchUp ==
    \A j \in Jobs :
        LET job == sched.jobs[j]
            wake == job.wake
        IN  /\ job.pending <= 1
            /\ wake # None =>
                  /\ wake[1].caught <= 1
                  /\ wake[1].over =>
                        wake[1].caught = IF wake[1].skipped \/ wake[1].late THEN 0 ELSE 1

\* three run times were due; one catch-up run executed and is over
C17_Witness ==
    \E j \in Jobs :
        /\ sched.jobs[j].wake # None
        /\ sched.jobs[j].wake[1].missed = MaxMissed
        /\ sched.jobs[j].wake[1].over
        /\ sched.jobs[j].wake[1].caught = 1
        /\ sched.jobs[j].due = 0

(***************************************************************************)
(* C21.  Notification dispatch is best-effort: a failure of the sink is    *)
(* never raised to the refresh, so every row of the batch, the one being   *)
(* notified included, is updated and committed; and the commit does not    *)
(* wait on the dispatch: no call of the sink was awaited before it.        *)
(***************************************************************************)
C21_FailureNotRaised ==
    \A r \in RunIds :
        runs[r].pc = "done" =>
            /\ Len(runs[r].session) = Len(runs[r].snapshots)
            /\ \A e \in Entries(r) : After(e.loaded.id) = e.new

C21_BestEffortDispatch ==
    /\ C21_FailureNotRaised
    /\ \A r \in RunIds :
          runs[r].pc = "done" =>
              \A i \in 1 .. Len(runs[r].sent) : ~Awaited(runs[r].sent[i].outcome)

(***************************************************************************)
(* C22.  A listing with ordering=clicks returns the active links sorted by *)
(* click_count descending, then last_clicked_at descending, then           *)
(* order_index ascending, then id ascending: A (10 clicks), B (10 clicks,  *)
(* clicked more recently) and C (5 clicks) come as B, A, C.  With any      *)
(* other ordering the list is sorted by order_index, then id.              *)
(***************************************************************************)
C22_ListOrder ==
    call.fn = "list_links" =>
        LET result == call.result
            listed == {result[i].id : i \in 1 .. Len(result)}
            active == {id \in DOMAIN links : links[id][1].is_active}
            Keys(x) == IF call.ordering = "clicks"
                       THEN <<0 - x.click_count, 0 - Stamp(x.last_clicked_at),
                              x.order_index, x.id>>
                       ELSE <<x.order_index, x.id>>
            Less(k, l) == \E n \in 1 .. Len(k) :
                             /\ k[n] < l[n]
                             /\ \A m \in 1 .. n - 1 : k[m] = l[m]
        IN  /\ \A i \in 1 .. Len(result) : result[i] = links[result[i].id][1]
            /\ \A i, j \in 1 .. Len(result) : i < j => Less(Keys(result[i]), Keys(result[j]))
            /\ ~call.include_inactive => listed \subseteq active
            /\ (~call.include_inactive /\ call.limit = None) => listed = active
            /\ ( /\ call.ordering = "clicks"
                 /\ \A id \in DOMAIN links : links[id][1].is_active
                 /\ links[1][1].click_count = 10 /\ links[2][1].click_count = 10
                 /\ links[3][1].click_count = 5
                 /\ Stamp(links[2][1].last_clicked_at) > Stamp(links[1][1].last_clicked_at)
                 /\ call.limit = None )
               => \E b, a, c \in 1 .. Len(result) :
                      /\ b < a /\ a < c
                      /\ result[b].id = 2 /\ result[a].id = 1 /\ result[c].id = 3

\* the example: A and B with ten clicks, B clicked later, C with five, and
\* the listing by clicks made
C22_Witness ==
    /\ call.fn = "list_links"
    /\ call.ordering = "clicks"
    /\ ~call.include_inactive
    /\ call.limit = None
    /\ Len(call.result) = NumListed
    /\ links[1][1].click_count = 10 /\ links[2][1].click_count = 10
    /\ links[3][1].click_count = 5
    /\ links[1][1].last_clicked_at = Some(1) /\ links[2][1].last_clicked_at = Some(2)
    /\ call.result[1].id = 2

(***************************************************************************)
(* C23.  register_click on a URL no link matches: with title and category  *)
(* exactly one link is created for the URL and its click_count becomes 1;  *)
(* without title or category nothing is created and no counter changes.    *)
(* On a URL a link matches, that link's click_count goes up by exactly 1,  *)
(* its last_clicked_at is set, and no other link changes.                  *)
(***************************************************************************)
C23_RegisterClick ==
    \A k \in Clickers :
        (clicks[k].pc = "done" /\ clicks[k].status = Some(204)) =>
            LET before == clicks[k].before[1]
                payload == clicks[k].payload[1]
                matched == {id \in LinkIds : before[id] # None
                                              /\ before[id][1].url.text = payload.url.text}
                Others(id) == \A other \in LinkIds \ {id} : links[other] = before[other]
            IN  IF matched # { }
                THEN \E id \in matched :
                        /\ links[id] # None
                        /\ links[id][1].click_count = before[id][1].click_count + 1
                        /\ links[id][1].last_clicked_at # None
                        /\ links[id][1].last_clicked_at # before[id][1].last_clicked_at
                        /\ [links[id][1] EXCEPT !.click_count = 0, !.last_clicked_at = None]
                              = [before[id][1] EXCEPT !.click_count = 0,
                                                      !.last_clicked_at = None]
                        /\ Others(id)
                ELSE IF payload.title = None \/ payload.category = None
                THEN links = before
                ELSE \E id \in LinkIds :
                        /\ before[id] = None
                        /\ links[id] # None
                        /\ links[id][1].url = payload.url
                        /\ links[id][1].click_count = 1
                        /\ links[id][1].last_clicked_at # None
                        /\ Others(id)

\* a click created its link, and a later click on the same page, written
\* with the trailing slash, was counted on it
C23_Witness ==
    \E id \in LinkIds :
        /\ clicks[1].pc = "done"
        /\ clicks[1].status = Some(204)
        /\ clicks[1].before[1][id] # None
        /\ clicks[1].before[1][id][1].click_count = 1
        /\ clicks[1].before[1][id][1].url # clicks[1].payload[1].url
        /\ links[id][1].click_count = 2

(***************************************************************************)
(* C24.  A successful refresh overwrites the cached sale state of the      *)
(* watch with the values of the selected offer of the payload, and no      *)
(* refresh, successful or not, changes id, url, product_code, store_id or  *)
(* label.                                                                  *)
(***************************************************************************)
C24_SaleStateFromOffer ==
    \A r \in RunIds :
        runs[r].pc = "done" =>
            \A e \in Entries(r) :
                LET id == e.loaded.id
                    old == Before(r, id)
                    new == After(id)
                    offer == IF e.payload = None THEN None
                             ELSE _select_primary_offer(e.payload[1])
                    price == Get(offer, "price")
                    badge == Get(Get(offer, "badges"), "dealBadge")
                IN  /\ <<new.id, new.url, new.product_code, new.store_id, new.label>>
                          = <<old.id, old.url, old.product_code, old.store_id, old.label>>
                    /\ e.payload # None =>
                          /\ new.current_price = Get(price, "value")
                          /\ new.price_unit = Get(price, "unit")
                          /\ new.regular_price = Get(Get(offer, "wasPrice"), "value")
                          /\ new.sale_text = Get(badge, "text")
                          /\ new.sale_badge_name = Get(badge, "name")
                          /\ new.sale_type = StrOr(Get(price, "type"), Get(badge, "type"))
                          /\ new.sale_expiry = _parse_expiry(StrOr(Get(badge, "expiryDate"),
                                                                   Get(price, "expiryDate")))
                          /\ new.stock_status = Get(offer, "stockStatus")

\* a watch on sale is refreshed with the second sample payload: the price
\* goes to 6.25 and the sale text to the new badge's, the product code stays
C24_Witness ==
    \E r \in RunIds :
        /\ runs[r].pc = "done"
        /\ \E e \in Entries(r) :
              /\ e.loaded.sale_text = Some("SAVE $0.39")
              /\ After(e.loaded.id).sale_text = Some("SAVE $0.89")
              /\ After(e.loaded.id).current_price = Some(6250)
              /\ After(e.loaded.id).product_code = e.loaded.product_code

(***************************************************************************)
(* C25.  One run of the link health check probes every link that is        *)
(* active when the run starts and no inactive one, gives each exactly one  *)
(* status: up below 400, degraded from 400 to 499, down from 500 on or     *)
(* when the server does not respond, error for another transport failure;  *)
(* and records them all in one batch, whatever the probes of the other     *)
(* links came to.                                                          *)
(***************************************************************************)
C25_HealthCheck ==
    health.pc = "done" =>
        LET start == health.start[1]
            before == health.before[1]
            probed == {health.probes[i].id : i \in 1 .. Len(health.probes)}
            Claimed(outcome) ==
                IF outcome.kind = "response"
                THEN IF outcome.status_code < 400 THEN "up"
                     ELSE IF outcome.status_code < 500 THEN "degraded"
                     ELSE "down"
                ELSE IF outcome.error = "ReadTimeout" THEN "down"
                ELSE "error"
        IN  /\ probed = {id \in LinkIds : start[id] # None /\ start[id][1].is_active}
            /\ Len(health.probes) = Cardinality(probed)
            /\ \A i \in 1 .. Len(health.probes) :
                  LET id == health.probes[i].id
                  IN  /\ links[id][1].status = Claimed(health.probes[i].outcome)
                      /\ links[id][1].last_checked_at # before[id][1].last_checked_at
            /\ \A id \in LinkIds \ probed :
                  /\ links[id][1].status = before[id][1].status
                  /\ links[id][1].last_checked_at = before[id][1].last_checked_at

(***************************************************************************)
(* C26.  When two non-forced mind-map updates that carry the same expected *)
(* version, the stored one, run concurrently against one document, at most *)
(* one of them is applied and the other is answered with a conflict: no    *)
(* update is silently overwritten, and the version ends exactly 1 higher   *)
(* per applied write.                                                      *)
(***************************************************************************)
C26_AtMostOneApplied ==
    \A c, d \in MindClients :
        LET Writes(k) == /\ mreqs[k].pc \in {"write", "done"}
                         /\ mreqs[k].doc # None
                         /\ ~mreqs[k].payload[1].force
                         /\ mreqs[k].payload[1].expected_version
                               = Some(mreqs[k].doc[1].version)
                         /\ mreqs[k].payload[1].data # None
            Applied(k) == mreqs[k].pc = "done" /\ mreqs[k].response[1].status = 200
        IN  ( /\ c # d
              /\ Writes(c) /\ Writes(d)
              /\ mreqs[c].doc_id = mreqs[d].doc_id
              /\ mreqs[c].doc[1].version = mreqs[d].doc[1].version
              /\ mreqs[c].pc = "done" /\ mreqs[d].pc = "done" )
            => /\ ~(Applied(c) /\ Applied(d))
               /\ \E k \in {c, d} : mreqs[k].response[1].status = 409

(***************************************************************************)
(* C27.  If applying one target's successfully fetched payload raises      *)
(* inside _apply_snapshots, the other targets of the batch are still       *)
(* persisted, and no notification was dispatched for a watch whose         *)
(* last_signature and last_notified_at were then rolled back.              *)
(***************************************************************************)
C27_RaiseIsContained ==
    \A r \in RunIds :
        runs[r].pc = "raised" =>
            /\ \A i \in 1 .. Len(runs[r].snapshots) :
                  i # runs[r].applied + 1 =>
                      After(runs[r].snapshots[i].watch_id).last_checked_at = runs[r].now
            /\ \A i \in 1 .. Len(runs[r].sent) :
                  /\ After(runs[r].sent[i].watch_id).last_notified_at = runs[r].now
                  /\ After(runs[r].sent[i].watch_id).last_signature # None

(***************************************************************************)
(* C28.  _select_primary_offer returns the first offer in list order that  *)
(* carries a non-empty deal badge; the first offer if none carries one; no *)
(* offer if the list is missing or empty.  The deal badge the notification *)
(* policy tests is the badge of the selected offer.                        *)
(***************************************************************************)
C28_FirstBadgedOffer ==
    (call.fn = "_select_primary_offer" /\ call.result # None) =>
        LET offers == call.offers
            result == call.result[1]
            badged == {i \in 1 .. Len(offers) : offers[i].badges[1].dealBadge # None}
        IN  /\ Len(offers) = 0 => result.offer = None
            /\ (Len(offers) > 0 /\ badged = { }) => result.offer = Some(offers[1])
            /\ badged # { } =>
                  \E i \in badged :
                      /\ \A j \in badged : i <= j
                      /\ result.offer = Some(offers[i])
            /\ result.deal_active = (badged # { })
            /\ result.offer # None =>
                  result.deal_badge = result.offer[1].badges[1].dealBadge
            /\ result.offer = None => result.deal_badge = None

\* a list whose first offer has no badge and whose third is the first with one
C28_Witness ==
    /\ call.fn = "_select_primary_offer"
    /\ call.result # None
    /\ Len(call.offers) = 3
    /\ call.offers[1].badges[1].dealBadge = None
    /\ call.offers[2].badges[1].dealBadge = None
    /\ call.result[1].offer = Some(call.offers[3])
    /\ call.result[1].deal_active

(***************************************************************************)
(* C29.  After any sequence of create_watch requests, concurrent ones      *)
(* included, there is at most one watch row per URL; a create for a URL    *)
(* that already has a watch creates no new row, refreshes the existing     *)
(* watch and returns it with the same id.                                  *)
(***************************************************************************)
C29_OneWatchPerUrl ==
    /\ \A id, other \in WatchIds :
          (id # other /\ watches[id] # None /\ watches[other] # None) =>
              watches[id][1].url # watches[other][1].url
    /\ \A r \in RunIds :
          ( /\ runs[r].pc = "respond"
            /\ runs[r].request[1].endpoint = "create_watch"
            /\ runs[r].request[1].existing # { } ) =>
              LET request == runs[r].request[1]
                  response == runs[r].response[1]
              IN  /\ get_loblaws_watch_by_url(Str(request.payload.url)) = request.existing
                  /\ response.status = 201
                  /\ response.body # None
                  /\ response.body[1].id \in request.existing
                  /\ response.body[1].url = Str(request.payload.url)
                  /\ response.body[1].last_checked_at # None

\* two requests for one new URL were in flight together: one inserted the
\* row, the other found it, and both are answered with the same row
C29_Witness ==
    /\ runs[1].pc = "respond" /\ runs[2].pc = "respond"
    /\ runs[1].request[1].endpoint = "create_watch"
    /\ runs[2].request[1].endpoint = "create_watch"
    /\ runs[1].request[1].payload.url = UrlNewProduct
    /\ runs[2].request[1].payload.url = UrlNewProduct
    /\ runs[1].request[1].existing = { }
    /\ runs[2].request[1].existing # { }
    /\ runs[1].response[1].body[1].id = runs[2].response[1].body[1].id

(***************************************************************************)
(* C30.  refresh_watch_ids with no ids or an empty id set targets every    *)
(* watch, and with a non-empty id set exactly the existing watches whose   *)
(* id is in the set; when none exists the result is empty and the          *)
(* refresh-one endpoint answers not found.  A watch deleted between target *)
(* loading and _apply_snapshots is skipped, is never re-created and its id *)
(* is absent from the returned list, while the remaining targets are       *)
(* still updated.                                                          *)
(***************************************************************************)
C30_TargetsAndDeletion ==
    LET existing == {id \in WatchIds : watches[id] # None}
        Ids(seq) == {seq[i] : i \in DOMAIN seq}
        TargetIds(targets) == {targets[i].id : i \in DOMAIN targets}
        run == runs[1]
    IN  /\ \A watch_ids \in SUBSET (1 .. NumWatches + 1) :
              LET targets == _load_targets(watch_ids)
                  wanted == IF watch_ids = { } THEN existing
                            ELSE existing \cap watch_ids
              IN  /\ TargetIds(targets) = wanted
                  /\ Len(targets) = Cardinality(wanted)
        /\ ( /\ run.pc = "done"
             /\ run.request # None
             /\ run.request[1].endpoint = "refresh_watch_endpoint"
             /\ run.targets = << >> ) =>
                /\ run.updated_ids = << >>
                /\ AfterRefresh(run) = Response(404, None)
        /\ ( /\ run.pc = "respond"
             /\ run.request[1].endpoint = "refresh_watch_endpoint"
             /\ run.request[1].watch_id \notin WatchIds ) =>
                run.response[1] = Response(404, None)
        /\ run.pc \in {"apply", "done"} =>
              \A id \in run.absent :
                  /\ watches[id] = None
                  /\ id \notin Ids(run.updated_ids)
        /\ (run.pc = "done" /\ run.targets # << >>) =>
              /\ Ids(run.updated_ids) \subseteq TargetIds(run.targets) \ run.absent
              /\ \A id \in TargetIds(run.targets) \ run.absent :
                    run.before[1][id] # None =>
                        /\ id \in Ids(run.updated_ids)
                        /\ watches[id] # None =>
                              watches[id][1].last_checked_at = run.now
        \* the run is given up only for a row deleted after _apply_snapshots
        \* had started
        /\ run.pc = "raised" =>
              \E id \in TargetIds(run.targets) \ run.absent : watches[id] = None

\* a refresh of both watches has returned; the first was deleted while the
\* pages were fetched and is not in the list, the second was updated
C30_Witness ==
    /\ runs[1].pc = "done"
    /\ Len(runs[1].targets) = 2
    /\ runs[1].absent = {1}
    /\ runs[1].updated_ids = <<2>>
    /\ watches[1] = None
    /\ watches[2] # None
    /\ watches[2][1].last_checked_at = runs[1].now

====
